---- MODULE Spec2Model ----
(***************************************************************************)
(* A model of the resource proxy: the request dispatcher (processRequest), *)
(* the rate meter (RateMeter.js) on top of its sqlite statement queue, and *)
(* the forwarder's response inspection.                                     *)
(*                                                                         *)
(* Time is counted in milliseconds (getMicroTime() is Date.getTime()/1000, *)
(* so every timestamp is a whole number of milliseconds).  The quotients   *)
(* rate = rateLimit / rateLimitPeriod / 60 and ratePeriodSeconds = 1/rate  *)
(* are kept as exact rationals: every comparison the code makes with them  *)
(* is cross-multiplied.                                                    *)
(***************************************************************************)
EXTENDS Integers, Sequences, FiniteSets, TLC

VARIABLES
    cfg,          \* the configuration after postParseConfigurationFile
    now,          \* wall clock, milliseconds
    dbConnection, \* RateMeter.dbConnection: "null" or "open"
    rows,         \* table ips: key <<url, referrer>> -> row
    dbQueue,      \* statements scheduled on the connection, in issue order
    stats,        \* per Resource: totalRequests, firstRequest, lastRequest
    token,        \* per Resource: generation of the token it holds (0: none)
    req,          \* per request: dispatch state
    serverUp,     \* FALSE once exitHandler has called process.exit()
    admitLog,     \* history: one record per admission the meter granted
    peer,         \* a second proxy process on the same proxy.sqlite
    starts,       \* how many times start() has been called
    probe,        \* the last call of a function applied on its own, with its result
    calls         \* token acquisitions: one record per caller of the login functions

vars == <<cfg, now, dbConnection, rows, dbQueue, stats, token, req, serverUp,
          admitLog, peer, starts, probe, calls>>

----------------------------------------------------------------------------
(* Bounds *)

MaxRequests == 2       \* requests of the dispatcher specification
MaxMeterRequests == 4  \* requests of the meter specification
MaxTime == 30000
MaxStarts == 1
MaxPeerStarts == 1
TickMs == 10000
MaxCallers == 2        \* callers of the login functions
MaxResources == 2      \* serverUrls entries of a Resource list
MaxReferrers == 2      \* allowedReferrers entries of an allow-list
MaxSourceLen == 5      \* lexemes of a string searched for a token
MaxBodyLen == 3        \* bytes of an upstream response body
MaxStoreStarts == 2    \* start() calls over the life of the store
MaxStoreChecks == 3    \* admission checks over the life of the store

Requests == DOMAIN req

----------------------------------------------------------------------------
(* Program constants *)

MsPerSecond == 1000
SecondsPerMinute == 60

----------------------------------------------------------------------------
(* Strings are sequences of one-character strings where the code looks     *)
(* inside them (paths); host names are kept split on '.'.                  *)

Star == <<"*">>

toLowerCase(s) ==
    LET
        toLowerCaseChar(c) ==
            CASE c = "A" -> "a"
              [] c = "B" -> "b"
              [] c = "X" -> "x"
              [] OTHER -> c
    IN
    [i \in 1..Len(s) |-> toLowerCaseChar(s[i])]

(* ProjectUtilities.startsWith: subject.toLowerCase().indexOf(needle.toLowerCase()) == 0 *)
startsWith(subject, needle) ==
    /\ Len(needle) <= Len(subject)
    /\ SubSeq(toLowerCase(subject), 1, Len(needle)) = toLowerCase(needle)

(* UrlFlexParser.testDomainsMatch on the two hosts split on '.' *)
testDomainsMatch(wildCardDomain, referrer) ==
    /\ Len(wildCardDomain) = Len(referrer)
    /\ \A i \in 1..Len(wildCardDomain) :
           wildCardDomain[i] = "*" \/ wildCardDomain[i] = referrer[i]

(* UrlFlexParser.testProtocolsMatch *)
testProtocolsMatch(sourceProtocol, targetProtocol) ==
    sourceProtocol = "*" \/ sourceProtocol = targetProtocol

(* UrlFlexParser.parsedUrlPartsMatch(urlPartsSource, urlPartsTarget).      *)
(* getServerUrlInfo passes the request's parts as the source; they carry   *)
(* no matchAll property, which is the matchAll = FALSE of RequestParts.    *)
parsedUrlPartsMatch(urlPartsSource, urlPartsTarget) ==
    /\ testDomainsMatch(urlPartsSource.hostname, urlPartsTarget.hostname)
    /\ \/ urlPartsSource.protocol = "*"
       \/ urlPartsTarget.protocol = "*"
       \/ urlPartsSource.protocol = urlPartsTarget.protocol
    /\ IF urlPartsSource.matchAll
       THEN urlPartsTarget.path = Star \/ urlPartsTarget.path = urlPartsSource.path
       ELSE urlPartsTarget.path = Star
              \/ startsWith(urlPartsTarget.path, urlPartsSource.path)

----------------------------------------------------------------------------
(* Configuration, as postParseConfigurationFile leaves it *)

(* One serverUrls entry, Configuration.js 364-473.  rate is the rational   *)
(* rateNum / rateDen per second, ratePeriodSeconds is rateDen / rateNum.   *)
ServerUrl(url, protocol, hostname, path, matchAll, rateLimit, rateLimitPeriod, credentials) ==
    [url |-> url, protocol |-> protocol, hostname |-> hostname, path |-> path,
     matchAll |-> matchAll,
     rateLimit |-> IF rateLimit < 0 THEN 0 ELSE rateLimit,
     rateLimitPeriod |-> IF rateLimitPeriod < 0 THEN 0 ELSE rateLimitPeriod,
     useRateMeter |-> rateLimit > 0 /\ rateLimitPeriod > 0,
     rateNum |-> IF rateLimit > 0 /\ rateLimitPeriod > 0 THEN rateLimit ELSE 0,
     rateDen |-> IF rateLimit > 0 /\ rateLimitPeriod > 0
                 THEN rateLimitPeriod * SecondsPerMinute ELSE 1,
     mayRequireToken |-> credentials # "none"]

(* The allow-list entries, Configuration.js 270-296: the parsed pattern    *)
(* and the key fullReferrerURLFromParts gives it.                          *)
StarReferrer ==
    [protocol |-> "*", hostname |-> Star, path |-> Star, referrer |-> "*"]
AppReferrer ==
    [protocol |-> "https", hostname |-> <<"app", "example", "org">>, path |-> Star,
     referrer |-> "https://app.example.org/*"]

AllowedReferrerLists == {<<StarReferrer>>, <<AppReferrer>>}

UrlA == "http://a.com"
UrlB == "https://b.com/x"

Configuration(mustMatch, allowedReferrers, rc) ==
    [mustMatch |-> mustMatch,
     matchAllReferrer |-> TRUE,
     allowAnyReferrer |-> \E i \in 1..Len(allowedReferrers) :
                              allowedReferrers[i].referrer = "*",
     allowedReferrers |-> allowedReferrers,
     listenURI |-> {"/proxy"},
     localPingURL |-> "/ping",
     localStatusURL |-> "/status",
     serverUrls |->
        << ServerUrl(UrlA, "http", <<"a", "com">>, Star, TRUE, rc[1], rc[2], "none"),
           ServerUrl(UrlB, "https", <<"b", "com">>, <<"/", "x">>, TRUE, 0, 0, "user") >>]

Configurations ==
    LET
        (* (rateLimit, rateLimitPeriod) of the metered Resource: windows of 60 s,  *)
        (* 20 s and half a second.                                                 *)
        RateConfigs == {<<1, 1>>, <<3, 1>>, <<120, 1>>}
    IN
    { Configuration(m, l, rc) : m \in BOOLEAN, l \in AllowedReferrerLists,
                                rc \in RateConfigs }

----------------------------------------------------------------------------
(* Inbound requests.  A request is given with the parts the URL parsers    *)
(* derive from it: listenPath from parseURLRequest, the target parts from  *)
(* getServerUrlInfo's own normalisation (lines 83-111), the Referer header *)
(* with the parts parseAndFixURLParts gives it.                            *)

(* processRequest 798-803: a missing or empty header becomes '*'. *)
refererOrStar(header) == IF header = "" THEN "*" ELSE header

(* parseAndFixURLParts(referrer.toLowerCase().trim()) of the referrers:    *)
(* a referrer without protocol gets protocol '*', one without path gets    *)
(* path '*', and the parts of a mixed-case referrer are lower case.        *)
referrerParts(referrer) ==
    CASE referrer = "*" ->
           [protocol |-> "*", hostname |-> Star, path |-> Star]
      [] referrer = "https://app.example.org/page" ->
           [protocol |-> "https", hostname |-> <<"app", "example", "org">>,
            path |-> <<"/", "p", "a", "g", "e">>]
      [] referrer = "https://evil.example.net/" ->
           [protocol |-> "https", hostname |-> <<"evil", "example", "net">>,
            path |-> Star]
      [] referrer = "HTTPS://App.Example.org/p/1" ->
           [protocol |-> "https", hostname |-> <<"app", "example", "org">>,
            path |-> <<"/", "p", "/", "1">>]
      [] referrer = "http://app.example.org/p" ->
           [protocol |-> "http", hostname |-> <<"app", "example", "org">>,
            path |-> <<"/", "p">>]
      [] referrer = "app.example.org" ->
           [protocol |-> "*", hostname |-> <<"app", "example", "org">>,
            path |-> Star]
      [] referrer = "https://*.example.org/p" ->
           [protocol |-> "https", hostname |-> <<"*", "example", "org">>,
            path |-> <<"/", "p">>]
      [] referrer = "https://deep.app.example.org/p" ->
           [protocol |-> "https", hostname |-> <<"deep", "app", "example", "org">>,
            path |-> <<"/", "p">>]

(* The parts of the proxied target; a request has no matchAll property. *)
RequestParts(protocol, hostname, path) ==
    [protocol |-> protocol, hostname |-> hostname, path |-> path, matchAll |-> FALSE]

RequestInput(referer, listenPath, target) ==
    [referer |-> referer, listenPath |-> listenPath, target |-> target]

TargetA == RequestParts("http", <<"a", "com">>, Star)

ReferrerApp == "https://app.example.org/page"
ReferrerEvil == "https://evil.example.net/"

(* Every target behind the listen prefix from an allowed page, the metered *)
(* Resource from a page that is not in the allow-list, and a ping.         *)
RequestInputs ==
    LET
        Targets ==
            { RequestParts("http", <<"a", "com">>, Star),
              RequestParts("https", <<"b", "com">>, <<"/", "x">>),
              RequestParts("http", <<"c", "com">>, Star) }
    IN
    { RequestInput(ReferrerApp, "/proxy", t) : t \in Targets }
    \cup { RequestInput(ReferrerEvil, "/proxy", TargetA),
           RequestInput(ReferrerApp, "/ping", TargetA) }

----------------------------------------------------------------------------
(* Referrer validator and Resource matcher *)

NoReferrer == "null"

(* The hosts handed to testDomainsMatch the other way round: the * of the  *)
(* referrer is the wildcard.                                               *)
referrerEntryMatches_wildcardOfReferrer(entry, parts, matchAllReferrer) ==
    /\ testProtocolsMatch(entry.protocol, parts.protocol)
    /\ entry.hostname = Star \/ testDomainsMatch(parts.hostname, entry.hostname)
    /\ \/ entry.path = Star
       \/ entry.path = parts.path
       \/ ~matchAllReferrer /\ startsWith(parts.path, entry.path)

(* The test the loop of lines 380-399 makes of one allow-list entry. *)
referrerEntryMatches(entry, parts, matchAllReferrer) ==
    /\ testProtocolsMatch(entry.protocol, parts.protocol)
    /\ entry.hostname = Star \/ testDomainsMatch(entry.hostname, parts.hostname)
    /\ \/ entry.path = Star
       \/ entry.path = parts.path
       \/ ~matchAllReferrer /\ startsWith(parts.path, entry.path)

(* UrlFlexParser.validatedReferrerFromReferrer *)
validatedReferrerFromReferrer(referrer, c) ==
    IF c.allowAnyReferrer THEN "*"
    ELSE IF referrer = "" THEN NoReferrer
    ELSE LET parts == referrerParts(referrer)
             hits == { i \in 1..Len(c.allowedReferrers) :
                         referrerEntryMatches(c.allowedReferrers[i], parts,
                                              c.matchAllReferrer) }
         IN IF hits = {} THEN NoReferrer
            ELSE c.allowedReferrers[CHOOSE i \in hits : \A j \in hits : i <= j].referrer

(* isValidURLRequest: with mustMatch off nothing is a valid proxy request. *)
isValidURLRequest(uri, c) ==
    c.mustMatch /\ uri \in c.listenURI

(* getServerUrlInfo 112-122: index of the first matching entry, 0 for null *)
getServerUrlInfo(urlParts, c) ==
    LET hits == { i \in 1..Len(c.serverUrls) :
                    parsedUrlPartsMatch(urlParts, c.serverUrls[i]) }
    IN IF hits = {} THEN 0 ELSE CHOOSE i \in hits : \A j \in hits : i <= j

----------------------------------------------------------------------------
(* Rate meter: the rows and the admission decision *)

(* The keys createDatabaseIfNotExists inserts, in insertion order. *)
meteredKeys(c) ==
    { <<c.serverUrls[i].url, c.allowedReferrers[j].referrer>> :
        i \in { k \in 1..Len(c.serverUrls) : c.serverUrls[k].useRateMeter },
        j \in 1..Len(c.allowedReferrers) }

(* id INTEGER PRIMARY KEY of an empty table: 1, 2, ... in insertion order. *)
rowId(c, key) ==
    LET i == CHOOSE k \in 1..Len(c.serverUrls) : c.serverUrls[k].url = key[1]
        j == CHOOSE k \in 1..Len(c.allowedReferrers) :
                 c.allowedReferrers[k].referrer = key[2]
        before == { k \in 1..(i - 1) : c.serverUrls[k].useRateMeter }
    IN Cardinality(before) * Len(c.allowedReferrers) + j

(* DELETE from ips, then one INSERT per metered Resource and referrer. *)
createDatabaseIfNotExists(c, timeOfAccess) ==
    [ key \in meteredKeys(c) |->
        [id |-> rowId(c, key), count |-> 0, time |-> timeOfAccess,
         total |-> 0, rejected |-> 0] ]

NoRows == [ key \in {} |-> 0 ]

(* queryResult.time + serverURL.ratePeriodSeconds <= timeOfRequest,        *)
(* with ratePeriodSeconds = rateDen / rateNum seconds and times in ms.     *)
windowExpired(queryResult, serverURL, timeOfRequest) ==
    queryResult.time * serverURL.rateNum + serverURL.rateDen * MsPerSecond
        <= timeOfRequest * serverURL.rateNum

(* The count compared with ratePeriodSeconds instead of rate. *)
countBelowRate_comparesPeriod(queryResult, serverURL) ==
    queryResult.count * serverURL.rateNum < serverURL.rateDen

(* queryResult.count < serverURL.rate, with rate = rateNum / rateDen. *)
countBelowRate(queryResult, serverURL) ==
    queryResult.count * serverURL.rateDen < serverURL.rateNum

(* A decision that restarts the count of an empty or expired window but    *)
(* leaves the start of the window where it was.                            *)
meterDecision_keepsWindowStart(queryResult, serverURL, timeOfRequest) ==
    IF queryResult.count = 0 \/ windowExpired(queryResult, serverURL, timeOfRequest)
    THEN [isOK |-> TRUE, newCount |-> 1, refreshTime |-> queryResult.time]
    ELSE IF countBelowRate(queryResult, serverURL)
         THEN [isOK |-> TRUE, newCount |-> queryResult.count + 1,
               refreshTime |-> queryResult.time]
         ELSE [isOK |-> FALSE, newCount |-> 0, refreshTime |-> 0]

(* isUnderMeterCap 260-273: the decision taken on the row that was read. *)
meterDecision(queryResult, serverURL, timeOfRequest) ==
    IF queryResult.count = 0 \/ windowExpired(queryResult, serverURL, timeOfRequest)
    THEN [isOK |-> TRUE, newCount |-> 1, refreshTime |-> timeOfRequest]
    ELSE IF countBelowRate(queryResult, serverURL)
         THEN [isOK |-> TRUE, newCount |-> queryResult.count + 1,
               refreshTime |-> queryResult.time]
         ELSE [isOK |-> FALSE, newCount |-> 0, refreshTime |-> 0]

(* An UPDATE whose rejection closes the window of the row as well. *)
runUpdate_rejectionClearsCount(table, stmt) ==
    [ key \in DOMAIN table |->
        IF table[key].id # stmt.id THEN table[key]
        ELSE IF stmt.isOK
             THEN [table[key] EXCEPT !.total = @ + 1, !.count = stmt.newCount,
                                     !.time = stmt.refreshTime]
             ELSE [table[key] EXCEPT !.rejected = @ + 1, !.count = 0] ]

(* The UPDATE of lines 275 and 283, applied WHERE id = ?. *)
runUpdate(table, stmt) ==
    [ key \in DOMAIN table |->
        IF table[key].id # stmt.id THEN table[key]
        ELSE IF stmt.isOK
             THEN [table[key] EXCEPT !.total = @ + 1, !.count = stmt.newCount,
                                     !.time = stmt.refreshTime]
             ELSE [table[key] EXCEPT !.rejected = @ + 1] ]

----------------------------------------------------------------------------
(* Forwarder: inspection of the upstream response *)

ContentEncodings == {"utf8", "gzip", "deflate"}

Throws == "throws"

(* 1013-1020: zlib is handed the BufferHelper, not a Buffer, and throws;   *)
(* otherwise the decoded body is the body as a string, never parsed.       *)
decodedBody(encoding, body) ==
    IF encoding \in {"deflate", "gzip"} THEN Throws ELSE "string"

(* The callback of proxyResponseRewrite 905-916 reads body.error.code of   *)
(* what it is given; a string has no error property, so the read throws.   *)
checkForMissingToken(decoded) ==
    IF decoded = "string" THEN Throws ELSE FALSE

(* The inspection as it would be had the body been parsed before the read. *)
tokenIsMissing_parsesBody(encoding, body) ==
    body \in {"error403", "error498", "error499"}

(* proxyResponse.end 1010-1026: tokenIsMissing after the try block. *)
tokenIsMissing(encoding, body) ==
    IF body = "" THEN FALSE
    ELSE IF decodedBody(encoding, body) = Throws THEN FALSE
    ELSE IF checkForMissingToken(decodedBody(encoding, body)) = Throws THEN FALSE
    ELSE checkForMissingToken(decodedBody(encoding, body))

----------------------------------------------------------------------------
(* State *)

(* No function has been applied on its own, no login has been asked for. *)
NoProbe == [op |-> "none"]
NoCalls == <<>>

IdleRequest ==
    [pc |-> "idle",
     input |-> [referer |-> "", listenPath |-> "/ping",
                target |-> RequestParts("http", <<"a", "com">>, Star)],
     referrer |-> NoReferrer,
     serverURLInfo |-> 0,
     timeOfRequest |-> 0,
     isUnderCap |-> "none",
     failure |-> "none",
     forwards |-> 0,
     upstream |-> "none",
     responses |-> <<>>]

InitRest ==
    /\ now = TickMs
    /\ dbConnection = "null"
    /\ rows = NoRows
    /\ dbQueue = <<>>
    /\ stats = [i \in 1..2 |-> [totalRequests |-> 0, firstRequest |-> 0, lastRequest |-> 0]]
    /\ token = [i \in 1..2 |-> 0]
    /\ serverUp = TRUE
    /\ admitLog = <<>>
    /\ peer = [phase |-> "idle", starts |-> 0]
    /\ starts = 0
    /\ probe = NoProbe
    /\ calls = NoCalls

Init ==
    /\ cfg \in { c \in Configurations : c.serverUrls[1].rateLimit = 1 }
    /\ req = [r \in 1..MaxRequests |-> IdleRequest]
    /\ InitRest

(* The meter alone: requests for the metered Resource only. *)
InitMeter ==
    /\ cfg \in { c \in Configurations : c.mustMatch }
    /\ req = [r \in 1..MaxMeterRequests |-> IdleRequest]
    /\ InitRest


----------------------------------------------------------------------------
(* Clock and the meter's public start() and stop() *)

Tick ==
    /\ now + TickMs <= MaxTime
    /\ now' = now + TickMs
    /\ UNCHANGED <<probe, calls, cfg, dbConnection, rows, dbQueue, stats, token, req, serverUp,
                   admitLog, peer, starts>>

(* start(): openDatabase; createDatabaseIfNotExists is the first statement *)
(* batch of the new connection.                                            *)
start ==
    /\ serverUp
    /\ dbConnection = "null"
    /\ dbConnection' = "open"
    /\ dbQueue' = Append(dbQueue, [op |-> "create", r |-> 0, id |-> 0, isOK |-> FALSE,
                                   newCount |-> 0, refreshTime |-> 0])
    /\ starts < MaxStarts
    /\ starts' = starts + 1
    /\ UNCHANGED <<probe, calls, cfg, now, rows, stats, token, req, serverUp, admitLog, peer>>

(* stop(): closeDatabase.  Statements already scheduled still complete. *)
stop ==
    /\ serverUp
    /\ dbConnection = "open"
    /\ dbConnection' = "null"
    /\ UNCHANGED <<probe, calls, cfg, now, rows, dbQueue, stats, token, req, serverUp, admitLog, peer, starts>>

(* A second proxy process opening the same proxy.sqlite runs               *)
(* createDatabaseIfNotExists too: its DELETE and its INSERTs are separate  *)
(* statements, outside any transaction.                                    *)
peerDelete ==
    /\ peer.phase = "idle"
    /\ peer.starts < MaxPeerStarts
    /\ rows # NoRows
    /\ rows' = NoRows
    /\ peer' = [phase |-> "deleted", starts |-> peer.starts + 1]
    /\ UNCHANGED <<probe, calls, cfg, now, dbConnection, dbQueue, stats, token, req, serverUp, admitLog, starts>>

peerInsert ==
    /\ peer.phase = "deleted"
    /\ rows' = createDatabaseIfNotExists(cfg, now)
    /\ peer' = [peer EXCEPT !.phase = "idle"]
    /\ UNCHANGED <<probe, calls, cfg, now, dbConnection, dbQueue, stats, token, req, serverUp, admitLog, starts>>

----------------------------------------------------------------------------
(* Dispatcher: processRequest *)

(* processRequest without the referrer != null test of line 806. *)
route_skipsReferrerTest(in, c) ==
    LET info == getServerUrlInfo(in.target, c)
    IN IF in.listenPath = c.localPingURL THEN "ping"
       ELSE IF isValidURLRequest(in.listenPath, c)
            THEN IF info # 0
                 THEN IF c.serverUrls[info].useRateMeter THEN "meter" ELSE "forward"
                 ELSE IF ~c.mustMatch THEN "passthrough" ELSE "404"
            ELSE "file"

(* The branch processRequest takes for a request, lines 805-847. *)
route(in, c) ==
    LET referrer == validatedReferrerFromReferrer(refererOrStar(in.referer), c)
        info == getServerUrlInfo(in.target, c)
    IN IF referrer = NoReferrer THEN "403"
       ELSE IF in.listenPath = c.localPingURL THEN "ping"
       ELSE IF isValidURLRequest(in.listenPath, c)
            THEN IF info # 0
                 THEN IF c.serverUrls[info].useRateMeter THEN "meter" ELSE "forward"
                 ELSE IF ~c.mustMatch THEN "passthrough" ELSE "404"
            ELSE "file"

(* sendErrorResponse / sendJSONResponse: one response written and ended. *)
sendResponse(q, code, body) ==
    [q EXCEPT !.pc = "done", !.responses = Append(@, [code |-> code, body |-> body])]

arrived(r, in) ==
    [req[r] EXCEPT !.input = in,
                   !.referrer = validatedReferrerFromReferrer(refererOrStar(in.referer), cfg),
                   !.serverURLInfo = IF route(in, cfg) \in {"meter", "forward"}
                                     THEN getServerUrlInfo(in.target, cfg) ELSE 0,
                   !.timeOfRequest = 0]

(* Requests are numbered in the order they arrive. *)
nextRequest(r) ==
    /\ req[r].pc = "idle"
    /\ \A p \in Requests : p < r => req[p].pc # "idle"

(* 846: referrer not allowed *)
rejectReferrer(r, in) ==
    /\ serverUp /\ nextRequest(r)
    /\ route(in, cfg) = "403"
    /\ req' = [req EXCEPT ![r] = sendResponse(arrived(r, in), 403, "error")]
    /\ UNCHANGED <<probe, calls, cfg, now, dbConnection, rows, dbQueue, stats, token, serverUp,
                   admitLog, peer, starts>>

(* 807-808: ping *)
sendPingResponse(r, in) ==
    /\ serverUp /\ nextRequest(r)
    /\ route(in, cfg) = "ping"
    /\ req' = [req EXCEPT ![r] = sendResponse(arrived(r, in), 200, "ping")]
    /\ UNCHANGED <<probe, calls, cfg, now, dbConnection, rows, dbQueue, stats, token, serverUp,
                   admitLog, peer, starts>>

(* 838: no Resource matches and mustMatch is on *)
resourceNotFound(r, in) ==
    /\ serverUp /\ nextRequest(r)
    /\ route(in, cfg) = "404"
    /\ req' = [req EXCEPT ![r] = sendResponse(arrived(r, in), 404, "error")]
    /\ UNCHANGED <<probe, calls, cfg, now, dbConnection, rows, dbQueue, stats, token, serverUp,
                   admitLog, peer, starts>>

(* 842 and proxyServeFile: a GET for a path other than '/' with no         *)
(* staticFilePath configured sends nothing.                                *)
proxyServeFile(r, in) ==
    /\ serverUp /\ nextRequest(r)
    /\ route(in, cfg) = "file"
    /\ req' = [req EXCEPT ![r] = [arrived(r, in) EXCEPT !.pc = "unanswered"]]
    /\ UNCHANGED <<probe, calls, cfg, now, dbConnection, rows, dbQueue, stats, token, serverUp,
                   admitLog, peer, starts>>

(* processValidatedRequest 499-560 for Resource i: counters, then          *)
(* proxyServer.web.                                                        *)
countRequest(st, i, t) ==
    [st EXCEPT ![i] = [totalRequests |-> @.totalRequests + 1,
                       firstRequest |-> IF @.firstRequest = 0 THEN t ELSE @.firstRequest,
                       lastRequest |-> t]]

forwarded(q) == [q EXCEPT !.pc = "forwarded", !.forwards = @ + 1]

(* 821 and 836: straight to processValidatedRequest, with the matched      *)
(* Resource or with the synthetic one of lines 826-835 (index 0, which     *)
(* has no counters of its own).                                            *)
processUnmetered(r, in) ==
    /\ serverUp /\ nextRequest(r)
    /\ route(in, cfg) \in {"forward", "passthrough"}
    /\ req' = [req EXCEPT ![r] = forwarded(arrived(r, in))]
    /\ stats' = IF arrived(r, in).serverURLInfo # 0
                THEN countRequest(stats, arrived(r, in).serverURLInfo, now)
                ELSE stats
    /\ UNCHANGED <<probe, calls, cfg, now, dbConnection, rows, dbQueue, token, serverUp, admitLog, peer, starts>>

(* 819, isUnderMeterCap with an open connection: the SELECT is scheduled. *)
isUnderMeterCap(r, in) ==
    /\ serverUp /\ nextRequest(r)
    /\ route(in, cfg) = "meter"
    /\ dbConnection = "open"
    /\ req' = [req EXCEPT ![r] = [arrived(r, in) EXCEPT !.pc = "select",
                                                        !.timeOfRequest = now]]
    /\ dbQueue' = Append(dbQueue, [op |-> "select", r |-> r, id |-> 0, isOK |-> FALSE,
                                   newCount |-> 0, refreshTime |-> 0])
    /\ UNCHANGED <<probe, calls, cfg, now, dbConnection, rows, stats, token, serverUp, admitLog, peer, starts>>

(* 301 and 774-778: no connection, the promise is rejected, 420. *)
meterNotStarted(r, in) ==
    /\ serverUp /\ nextRequest(r)
    /\ route(in, cfg) = "meter"
    /\ dbConnection = "null"
    /\ req' = [req EXCEPT ![r] = sendResponse([arrived(r, in) EXCEPT !.isUnderCap = "error",
                                                                     !.failure = "not started"],
                                              420, "error")]
    /\ UNCHANGED <<probe, calls, cfg, now, dbConnection, rows, dbQueue, stats, token, serverUp,
                   admitLog, peer, starts>>

----------------------------------------------------------------------------
(* The connection's statement queue: the statement at its head completes   *)
(* and its callback runs.                                                  *)

Statement(op, r, id, isOK, newCount, refreshTime) ==
    [op |-> op, r |-> r, id |-> id, isOK |-> isOK, newCount |-> newCount,
     refreshTime |-> refreshTime]

headIs(op) == dbQueue # <<>> /\ Head(dbQueue).op = op

(* The key isUnderMeterCap selects on: referrer = ? and url = ?. *)
meterKey(q) == <<cfg.serverUrls[q.serverURLInfo].url, q.referrer>>

execCreate ==
    /\ serverUp /\ headIs("create")
    /\ rows' = createDatabaseIfNotExists(cfg, now)
    /\ dbQueue' = Tail(dbQueue)
    /\ UNCHANGED <<probe, calls, cfg, now, dbConnection, stats, token, req, serverUp, admitLog, peer, starts>>

(* 255-257 and 774-778: the SELECT fails, the promise is rejected, 420. *)
selectFailed ==
    /\ serverUp /\ headIs("select")
    /\ LET r == Head(dbQueue).r
       IN req' = [req EXCEPT ![r] = sendResponse([@ EXCEPT !.isUnderCap = "error",
                                                            !.failure = "select failed",
                                                            !.timeOfRequest = 0],
                                                 420, "error")]
    /\ dbQueue' = Tail(dbQueue)
    /\ UNCHANGED <<probe, calls, cfg, now, dbConnection, rows, stats, token, serverUp, admitLog, peer, starts>>

(* exitHandler on 'uncaughtException': stop the meter, process.exit(). *)
exitHandler(r, reason) ==
    /\ req' = [req EXCEPT ![r].pc = "unanswered", ![r].timeOfRequest = 0,
                          ![r].failure = reason]
    /\ dbConnection' = "null"
    /\ serverUp' = FALSE
    /\ dbQueue' = <<>>

(* 292-293: no row; building the message reads the undeclared variable     *)
(* url, a ReferenceError nothing catches.                                  *)
noRecordExists ==
    /\ serverUp /\ headIs("select")
    /\ meterKey(req[Head(dbQueue).r]) \notin DOMAIN rows
    /\ exitHandler(Head(dbQueue).r, "no row")
    /\ UNCHANGED <<probe, calls, cfg, now, rows, stats, token, admitLog, peer, starts>>

(* 277 and 285 after stop(): dbConnection is null when the callback calls  *)
(* dbConnection.run, a TypeError nothing catches.                          *)
runOnClosedConnection ==
    /\ serverUp /\ headIs("select")
    /\ meterKey(req[Head(dbQueue).r]) \in DOMAIN rows
    /\ dbConnection = "null"
    /\ exitHandler(Head(dbQueue).r, "closed")
    /\ UNCHANGED <<probe, calls, cfg, now, rows, stats, token, admitLog, peer, starts>>

(* 260-291 and 766-768: the row is read, the request is admitted, its      *)
(* UPDATE is scheduled and processValidatedRequest forwards it.            *)
admit ==
    /\ serverUp /\ headIs("select")
    /\ dbConnection = "open"
    /\ meterKey(req[Head(dbQueue).r]) \in DOMAIN rows
    /\ LET r == Head(dbQueue).r
           q == req[r]
           queryResult == rows[meterKey(q)]
           d == meterDecision(queryResult, cfg.serverUrls[q.serverURLInfo], q.timeOfRequest)
       IN /\ d.isOK
          /\ dbQueue' = Append(Tail(dbQueue),
                               Statement("update", r, queryResult.id, TRUE,
                                         d.newCount, d.refreshTime))
          /\ req' = [req EXCEPT ![r] =
                        forwarded([q EXCEPT !.isUnderCap = "true", !.timeOfRequest = 0])]
          /\ stats' = countRequest(stats, q.serverURLInfo, now)
          /\ admitLog' = Append(admitLog, [key |-> meterKey(q), time |-> q.timeOfRequest,
                                           newCount |-> d.newCount,
                                           windowStart |-> d.refreshTime])
    /\ UNCHANGED <<probe, calls, cfg, now, dbConnection, rows, token, serverUp, peer, starts>>

(* A denial that has already counted the request on its Resource. *)
deny_countsRequest ==
    /\ serverUp /\ headIs("select")
    /\ dbConnection = "open"
    /\ meterKey(req[Head(dbQueue).r]) \in DOMAIN rows
    /\ LET r == Head(dbQueue).r
           q == req[r]
           queryResult == rows[meterKey(q)]
           d == meterDecision(queryResult, cfg.serverUrls[q.serverURLInfo], q.timeOfRequest)
       IN /\ ~d.isOK
          /\ dbQueue' = Append(Tail(dbQueue),
                               Statement("update", r, queryResult.id, FALSE, 0, 0))
          /\ req' = [req EXCEPT ![r] =
                        sendResponse([q EXCEPT !.isUnderCap = "false", !.timeOfRequest = 0],
                                     429, "error")]
          /\ stats' = countRequest(stats, q.serverURLInfo, now)
    /\ UNCHANGED <<probe, calls, cfg, now, dbConnection, rows, token, serverUp, admitLog, peer, starts>>

(* 282-291 and 769-772: the request is denied, 429. *)
deny ==
    /\ serverUp /\ headIs("select")
    /\ dbConnection = "open"
    /\ meterKey(req[Head(dbQueue).r]) \in DOMAIN rows
    /\ LET r == Head(dbQueue).r
           q == req[r]
           queryResult == rows[meterKey(q)]
           d == meterDecision(queryResult, cfg.serverUrls[q.serverURLInfo], q.timeOfRequest)
       IN /\ ~d.isOK
          /\ dbQueue' = Append(Tail(dbQueue),
                               Statement("update", r, queryResult.id, FALSE, 0, 0))
          /\ req' = [req EXCEPT ![r] =
                        sendResponse([q EXCEPT !.isUnderCap = "false", !.timeOfRequest = 0],
                                     429, "error")]
    /\ UNCHANGED <<probe, calls, cfg, now, dbConnection, rows, stats, token, serverUp, admitLog, peer, starts>>

execUpdate ==
    /\ serverUp /\ headIs("update")
    /\ rows' = runUpdate(rows, Head(dbQueue))
    /\ dbQueue' = Tail(dbQueue)
    /\ UNCHANGED <<probe, calls, cfg, now, dbConnection, stats, token, req, serverUp, admitLog, peer, starts>>

----------------------------------------------------------------------------
(* Upstream answers a forwarded request: proxyResponseRewrite *)

(* What the client is sent: the upstream body, or the notice of line 1033  *)
(* when the inspection reports a missing token.                            *)
deliveredBody(q, encoding, body) ==
    IF /\ q.serverURLInfo # 0
       /\ cfg.serverUrls[q.serverURLInfo].mayRequireToken
       /\ tokenIsMissing(encoding, body)
    THEN "Could not generate a new token"
    ELSE body

(* What the upstream may answer.  Only a Resource with mayRequireToken has *)
(* its response inspected (903); any other response is piped through      *)
(* unread, so one answer stands for all of them.                           *)
UpstreamAnswers(q) ==
    LET
        UpstreamBodies == {"", "ok", "error403", "error498", "error499"}
    IN
    IF q.serverURLInfo # 0 /\ cfg.serverUrls[q.serverURLInfo].mayRequireToken
    THEN ContentEncodings \X UpstreamBodies
    ELSE {<<"utf8", "ok">>}

proxyResponseRewrite(r, encoding, body) ==
    /\ serverUp /\ req[r].pc = "forwarded"
    /\ req' = [req EXCEPT ![r] =
                  sendResponse([@ EXCEPT !.upstream = body], 200,
                               deliveredBody(req[r], encoding, body))]
    /\ UNCHANGED <<probe, calls, cfg, now, dbConnection, rows, dbQueue, stats, token, serverUp,
                   admitLog, peer, starts>>

----------------------------------------------------------------------------

Next ==
    \/ start
    \/ stop
    \/ peerDelete
    \/ peerInsert
    \/ \E r \in Requests, in \in RequestInputs :
          \/ rejectReferrer(r, in)
          \/ sendPingResponse(r, in)
          \/ resourceNotFound(r, in)
          \/ proxyServeFile(r, in)
          \/ processUnmetered(r, in)
          \/ isUnderMeterCap(r, in)
          \/ meterNotStarted(r, in)
    \/ execCreate
    \/ selectFailed
    \/ noRecordExists
    \/ runOnClosedConnection
    \/ admit
    \/ deny
    \/ execUpdate
    \/ \E r \in Requests :
          \E answer \in UpstreamAnswers(req[r]) :
             proxyResponseRewrite(r, answer[1], answer[2])

Spec == Init /\ [][Next]_vars

(* The rate meter under requests for the metered Resource. *)
NextMeter ==
    \/ Tick
    \/ start
    \/ \E r \in Requests, in \in { RequestInput(ReferrerApp, "/proxy", TargetA) } :
          \/ isUnderMeterCap(r, in)
          \/ meterNotStarted(r, in)
    \/ execCreate
    \/ admit
    \/ deny
    \/ execUpdate

SpecMeter == InitMeter /\ [][NextMeter]_vars

----------------------------------------------------------------------------
(* The forwarder's upstream URL.  A query string is a sequence of          *)
(* <<key, value>> pairs in the order they are written; a parameters object *)
(* is such a sequence with every key once, in insertion order.             *)

hasKey(object, key) == \E i \in 1..Len(object) : object[i][1] = key

valueOf(object, key) ==
    IF hasKey(object, key)
    THEN object[CHOOSE i \in 1..Len(object) : object[i][1] = key][2]
    ELSE ""

(* object[key] = value *)
setKey(object, key, value) ==
    IF hasKey(object, key)
    THEN [i \in 1..Len(object) |->
             IF object[i][1] = key THEN <<key, value>> ELSE object[i]]
    ELSE Append(object, <<key, value>>)

(* ProjectUtilities.queryStringToObject: a later pair overwrites an earlier *)
(* one with the same key.                                                   *)
RECURSIVE queryStringToObject(_)
queryStringToObject(urlParameterString) ==
    IF urlParameterString = <<>> THEN <<>>
    ELSE LET n == Len(urlParameterString)
         IN setKey(queryStringToObject(SubSeq(urlParameterString, 1, n - 1)),
                   urlParameterString[n][1], urlParameterString[n][2])

(* ProjectUtilities.objectToQueryString: key=value joined by &, in the     *)
(* object's order; a property without a value is left out.                 *)
objectToQueryString(object) ==
    SelectSeq(object, LAMBDA pair : pair[2] # "null")

(* ProjectUtilities.isPropertySet on a configuration property ("" when the *)
(* property is absent or empty).                                           *)
isPropertySet(value) == value # ""

(* ProjectUtilities.addIfPropertyNotSet *)
addIfPropertyNotSet(object, key, value) ==
    IF ~hasKey(object, key) \/ valueOf(object, key) = ""
    THEN setKey(object, key, value)
    ELSE object

(* The request's parameters laid over the configured ones, 595-601. *)
RECURSIVE overlay(_, _)
overlay(configuredParameters, requestParameters) ==
    IF requestParameters = <<>> THEN configuredParameters
    ELSE overlay(setKey(configuredParameters, requestParameters[1][1],
                        requestParameters[1][2]),
                 Tail(requestParameters))

(* UrlFlexParser.combineParameters.  A POST reads request.query, which the *)
(* node request does not have, so nothing is laid over.                    *)
combineParameters(method, query, serverURLInfo) ==
    LET configuredParameters == queryStringToObject(serverURLInfo.query)
    IN IF method = "GET" /\ query # <<>>
       THEN overlay(configuredParameters, queryStringToObject(query))
       ELSE configuredParameters

(* processValidatedRequest 507-514 (0.1.3: 493-499): the merged parameters *)
(* with the configured token added when they have none.                    *)
parametersOf(method, query, serverURLInfo) ==
    LET parameters == combineParameters(method, query, serverURLInfo)
    IN IF isPropertySet(serverURLInfo.accessToken)
       THEN addIfPropertyNotSet(parameters, "token", serverURLInfo.accessToken)
       ELSE IF isPropertySet(serverURLInfo.token)
            THEN addIfPropertyNotSet(parameters, "token", serverURLInfo.token)
            ELSE parameters

(* UrlFlexParser.buildURLFromReferrerRequestAndInfo 559-566: the Resource's *)
(* url, then its own query when it has one, else the request parts' query.  *)
buildURLFromReferrerRequestAndInfo(urlRequestedPartsQuery, serverURLInfo) ==
    [url |-> serverURLInfo.url,
     query |-> IF serverURLInfo.query # <<>> THEN serverURLInfo.query
               ELSE urlRequestedPartsQuery]

(* The two proxy scripts of the repository. *)
ProxyVersions == {"0.1.3", "0.1.5"}

(* The URL the request is rewritten to and proxied to.  0.1.3 stores the   *)
(* merged parameters in urlRequestedParts.query before it builds the URL   *)
(* (part_001 501-502); 0.1.5 builds the string parametersCombined and then *)
(* builds the URL without it (part_002 516-528).                           *)
proxyRequestOf(version, method, query, serverURLInfo) ==
    IF version = "0.1.3"
    THEN buildURLFromReferrerRequestAndInfo(
             objectToQueryString(parametersOf(method, query, serverURLInfo)),
             serverURLInfo)
    ELSE buildURLFromReferrerRequestAndInfo(query, serverURLInfo)

(* sendErrorResponse 736-748: the error envelope. *)
errorEnvelope(urlRequested, errorCode, errorMessage) ==
    [error |-> [code |-> errorCode, details |-> errorMessage, message |-> errorMessage],
     request |-> urlRequested]

RequestQueries ==
    { <<>>, << <<"f", "pjson">> >>, << <<"token", "U">> >>,
      << <<"f", "pjson">>, <<"token", "U">> >>, << <<"token", "">>, <<"f", "pjson">> >> }
AccessTokens == {"", "S1", "S2"}
Methods == {"GET", "POST", "PUT"}

(* processValidatedRequest 533-535 (0.1.3: 477-479): for a POST or PUT the  *)
(* handler reads request.headers['Content-Type'] and calls indexOf on it.   *)
(* The request object keeps header names in lower case, so the value is     *)
(* undefined and the call throws before the request is handed to the proxy. *)
contentTypeReadThrows(method) == method \in {"POST", "PUT"}

UrlResources ==
    LET
        ConfiguredQueries == { <<>>, << <<"f", "json">> >> }
        ConfigTokens == {"", "S3"}
        CredentialModes == {"none", "user", "app"}
        (* Resources of the URL specification: not metered, no host redirect.      *)
        (* credentials names the configured pair: username and password, clientId  *)
        (* and clientSecret, or none.                                              *)
        UrlResource(query, accessToken, configToken, credentials) ==
            [url |-> UrlB, query |-> query, accessToken |-> accessToken, token |-> configToken,
             credentials |-> credentials]
    IN
    { UrlResource(q, a, t, c) : q \in ConfiguredQueries, a \in AccessTokens,
                                t \in ConfigTokens, c \in CredentialModes }

(* A probe of the forwarder: a GET goes out (forwards = 1), a POST or PUT   *)
(* ends in the exception of the Content-Type read.  No login function is   *)
(* called on the way (getNewTokenIfCredentialsAreSpecified has no caller), *)
(* so the number of token requests made for it is 0.  The counters are     *)
(* those of the request: attemptedRequests of processRequest 796,          *)
(* totalRequests of the Resource 499-504, validProcessedRequests 555, the  *)
(* last one after the Content-Type read.                                   *)
processValidatedRequest(version, method, query, serverURLInfo) ==
    /\ probe' = [op |-> "processValidatedRequest",
                 version |-> version, method |-> method, query |-> query,
                 serverURLInfo |-> serverURLInfo,
                 parameters |-> parametersOf(method, query, serverURLInfo),
                 proxyRequest |-> proxyRequestOf(version, method, query, serverURLInfo),
                 tokenRequests |-> 0,
                 thrown |-> contentTypeReadThrows(method),
                 forwards |-> IF contentTypeReadThrows(method) THEN 0 ELSE 1,
                 attemptedRequests |-> 1,
                 totalRequests |-> 1,
                 validProcessedRequests |-> IF contentTypeReadThrows(method) THEN 0 ELSE 1,
                 errorProcessedRequests |-> 0,
                 response |-> "none"]
    /\ UNCHANGED <<calls, cfg, now, dbConnection, rows, dbQueue, stats, token, req,
                   serverUp, admitLog, peer, starts>>

(* proxyResponseError 857-863: the upstream could not be reached; the      *)
(* envelope names request.url, which line 546 set to the upstream URL,     *)
(* and sendErrorResponse 746 counts the request as rejected.               *)
proxyResponseError ==
    /\ probe.op = "processValidatedRequest"
    /\ probe.forwards = 1
    /\ probe' = [probe EXCEPT !.op = "proxyResponseError",
                              !.errorProcessedRequests = @ + 1,
                              !.response = errorEnvelope(probe.proxyRequest, 502,
                                                         "Proxy request error")]
    /\ UNCHANGED <<calls, cfg, now, dbConnection, rows, dbQueue, stats, token, req,
                   serverUp, admitLog, peer, starts>>

(* The proxy at rest: what the specifications of single functions leave    *)
(* untouched.                                                              *)
InitAtRest ==
    /\ cfg = Configuration(TRUE, <<AppReferrer>>, <<1, 1>>)
    /\ req = [r \in 1..MaxRequests |-> IdleRequest]
    /\ now = TickMs
    /\ dbConnection = "null"
    /\ rows = NoRows
    /\ dbQueue = <<>>
    /\ stats = [i \in 1..2 |-> [totalRequests |-> 0, firstRequest |-> 0, lastRequest |-> 0]]
    /\ token = [i \in 1..2 |-> 0]
    /\ serverUp = TRUE
    /\ admitLog = <<>>
    /\ peer = [phase |-> "idle", starts |-> 0]
    /\ starts = 0
    /\ probe = NoProbe
    /\ calls = NoCalls

NextUrl ==
    \/ \E version \in ProxyVersions, method \in Methods, query \in RequestQueries,
          serverURLInfo \in UrlResources :
          processValidatedRequest(version, method, query, serverURLInfo)
    \/ proxyResponseError

SpecUrl == InitAtRest /\ [][NextUrl]_vars

----------------------------------------------------------------------------
(* ProjectUtilities.findTokenInString on strings.  A string is a sequence  *)
(* of lexemes: the separators, the text token= , the JSON key "token": ,   *)
(* a quote, a blank, and a letter of any other text (a) or of a value (V). *)

Quote == "\""
TokenEquals == "token="
JsonTokenKey == "\"token\":"

Sources ==
    LET
        Lexemes == {"?", "&", TokenEquals, "a", "V", JsonTokenKey, Quote, " "}
    IN
    UNION { [1..n -> Lexemes] : n \in 0..MaxSourceLen }

(* String.indexOf and String.search for one lexeme, 1-based, 0 for -1. *)
indexOf(source, lexeme) ==
    IF \E i \in 1..Len(source) : source[i] = lexeme
    THEN CHOOSE i \in 1..Len(source) :
             /\ source[i] = lexeme
             /\ \A j \in 1..(i - 1) : source[j] # lexeme
    ELSE 0

substr(source, from) == SubSeq(source, from, Len(source))

(* part_000 156-192 with token = 'token'.  The pattern (\?|&|\/|)token=    *)
(* has an empty alternative, so it is found wherever token= is; the value  *)
(* is cut at the next & only when that & is not its first character.  The  *)
(* JSON branch takes the next quoted string after the key.                 *)
findTokenInSource(source) ==
    IF \A i \in 1..Len(source) : source[i] = " " THEN <<>>
    ELSE IF indexOf(source, TokenEquals) > 0
    THEN LET value == substr(source, indexOf(source, TokenEquals) + 1)
             found == indexOf(value, "&")
         IN IF found > 1 THEN SubSeq(value, 1, found - 1) ELSE value
    ELSE IF indexOf(source, JsonTokenKey) > 0
    THEN LET value == substr(source, indexOf(source, JsonTokenKey) + 1)
             open == indexOf(value, Quote)
             close == IF open = 0 THEN 0 ELSE indexOf(substr(value, open + 1), Quote)
         IN IF open > 0 /\ close > 0
            THEN SubSeq(value, open + 1, open + close - 1)
            ELSE <<>>
    ELSE <<>>

----------------------------------------------------------------------------
(* Token acquisition: the promise-returning login functions of part_002    *)
(* 160-471.  Every caller gets a call record; all calls are for the same   *)
(* Resource, whose credential properties are one of LoginModes.            *)

(* Configuration.isUserLogin 49-55 *)
isUserLogin(mode) == mode = "user"

(* Configuration.isAppLogin 63-69 reads serverURLInfo.clientid and         *)
(* serverURLInfo.clientsecret.                                             *)
isAppLogin(mode) == mode = "appLowerCase"

httpRequestPromiseResponse(answer) ==
    IF answer \in {"networkError", "status500", "errorBody"} THEN "rejected" ELSE "resolved"

(* ProjectUtilities.findTokenInString(body, 'token'): '' when not found.   *)
(* The answer oauthReply is the reply of the OAuth token service, notes.md *)
(* 16-21: {"access_token":"V","expires_in":7200}.                          *)
findTokenInString(answer) ==
    IF answer = "token" THEN "T"
    ELSE IF answer = "oauthReply"
         THEN IF findTokenInSource(<<"{", "\"access_token\":", Quote, "V", Quote, ",",
                                     "\"expires_in\":", "7200", "}">>) = <<>>
              THEN "" ELSE "T"
         ELSE ""

NewCall(entry, mode, pc, requests, outcome, value) ==
    [entry |-> entry, mode |-> mode, pc |-> pc, requests |-> requests,
     last |-> "none", outcome |-> outcome, value |-> value]

settle(call, answer, outcome, value) ==
    [call EXCEPT !.pc = "settled", !.last = answer, !.outcome = outcome, !.value = value]

sameResource(mode) == \A i \in 1..Len(calls) : calls[i].mode = mode

UnchangedByLogin ==
    UNCHANGED <<probe, cfg, now, dbConnection, rows, dbQueue, stats, token, req,
                serverUp, admitLog, peer, starts>>

(* performAppLogin 275-306: POST to oauth2Endpoint + 'token'. *)
performAppLogin(entry, mode) ==
    NewCall(entry, mode, "appToken", 1, "pending", "")

(* performUserLogin 314-350: both branches of the executor read the        *)
(* variable referrer, which is neither a parameter nor a global: the       *)
(* ReferenceError thrown inside the executor rejects the promise.          *)
performUserLogin(entry, mode) ==
    NewCall(entry, mode, "settled", 0, "rejected", "")

(* getNewTokenIfCredentialsAreSpecified 358-368 *)
getNewTokenIfCredentialsAreSpecified(mode) ==
    /\ Len(calls) < MaxCallers /\ sameResource(mode)
    /\ calls' = Append(calls,
                  IF isAppLogin(mode)
                  THEN performAppLogin("getNewTokenIfCredentialsAreSpecified", mode)
                  ELSE IF isUserLogin(mode)
                       THEN performUserLogin("getNewTokenIfCredentialsAreSpecified", mode)
                       ELSE NewCall("getNewTokenIfCredentialsAreSpecified", mode,
                                    "settled", 0, "rejected", ""))
    /\ UnchangedByLogin

(* performAppLogin called on its own for a Resource with a client id. *)
callPerformAppLogin(mode) ==
    /\ Len(calls) < MaxCallers /\ sameResource(mode)
    /\ mode \in {"app", "appLowerCase"}
    /\ calls' = Append(calls, performAppLogin("performAppLogin", mode))
    /\ UnchangedByLogin

(* getNewTokenFromUserNamePasswordLogin 228-265, as runIntegrationTests    *)
(* calls it (1333): GET the rest/info page first, or reject at once when   *)
(* username or password is missing.                                         *)
getNewTokenFromUserNamePasswordLogin(mode) ==
    /\ Len(calls) < MaxCallers /\ sameResource(mode)
    /\ calls' = Append(calls,
                  IF mode = "user"
                  THEN NewCall("getNewTokenFromUserNamePasswordLogin", mode,
                               "info", 1, "pending", "")
                  ELSE NewCall("getNewTokenFromUserNamePasswordLogin", mode,
                               "settled", 0, "rejected", ""))
    /\ UnchangedByLogin

(* 291-303: the answer to the oauth2 token POST. *)
appTokenResponse(i, answer) ==
    /\ calls[i].pc = "appToken"
    /\ calls' = [calls EXCEPT ![i] =
         IF httpRequestPromiseResponse(answer) = "rejected"
         THEN settle(@, answer, "rejected", "")
         ELSE IF findTokenInString(answer) # ""
              THEN [@ EXCEPT !.pc = "exchange", !.last = answer, !.requests = @ + 1]
              ELSE settle(@, answer, "rejected", "")]
    /\ UnchangedByLogin

(* exchangePortalTokenForServerToken 389-401: the answer to generateToken. *)
exchangePortalTokenForServerToken(i, answer) ==
    /\ calls[i].pc = "exchange"
    /\ calls' = [calls EXCEPT ![i] =
         IF httpRequestPromiseResponse(answer) = "rejected"
         THEN settle(@, answer, "rejected", "")
         ELSE IF findTokenInString(answer) # ""
              THEN settle(@, answer, "resolved", findTokenInString(answer))
              ELSE settle(@, answer, "rejected", "")]
    /\ UnchangedByLogin

(* getTokenEndpointFromURL 191-212: the answer to the rest/info GET.  The  *)
(* body goes through JSON.parse inside the then-callback: when it throws,  *)
(* neither resolvePromise nor rejectPromise is ever called.                *)
getTokenEndpointFromURL(i, answer) ==
    /\ calls[i].pc = "info"
    /\ calls' = [calls EXCEPT ![i] =
         IF httpRequestPromiseResponse(answer) = "rejected"
         THEN settle(@, answer, "rejected", "")
         ELSE IF answer = "notJSON"
              THEN [@ EXCEPT !.pc = "never settles", !.last = answer]
              ELSE IF answer = "noEndpoint"
                   THEN settle(@, answer, "rejected", "")
                   ELSE [@ EXCEPT !.pc = "userToken", !.last = answer,
                                  !.requests = @ + 1]]
    /\ UnchangedByLogin

(* 247-255: the answer to the token POST; the token found is resolved      *)
(* without looking at its length.                                          *)
userTokenResponse(i, answer) ==
    /\ calls[i].pc = "userToken"
    /\ calls' = [calls EXCEPT ![i] =
         IF httpRequestPromiseResponse(answer) = "rejected"
         THEN settle(@, answer, "rejected", "")
         ELSE settle(@, answer, "resolved", findTokenInString(answer))]
    /\ UnchangedByLogin

NextBroker ==
    \/ \E mode \in {"none", "user", "app", "appLowerCase"} :
          \/ getNewTokenIfCredentialsAreSpecified(mode)
          \/ callPerformAppLogin(mode)
          \/ getNewTokenFromUserNamePasswordLogin(mode)
    \/ \E i \in 1..Len(calls),
          answer \in {"networkError", "status500", "errorBody", "noToken", "token",
                      "oauthReply"} :
          \/ appTokenResponse(i, answer)
          \/ exchangePortalTokenForServerToken(i, answer)
          \/ userTokenResponse(i, answer)
    \/ \E i \in 1..Len(calls),
          answer \in {"networkError", "status500", "errorBody", "notJSON", "noEndpoint",
                      "endpoint"} :
          getTokenEndpointFromURL(i, answer)

SpecBroker == InitAtRest /\ [][NextBroker]_vars

----------------------------------------------------------------------------
(* Resource and referrer matching as pure functions: a step applies one of *)
(* the matchers to an input and keeps the application in probe.  The       *)
(* matchers keep no state, so one application per behaviour covers them.   *)

MatchHosts ==
    { <<"www", "example", "com">>, <<"*", "example", "com">>,
      <<"deep", "www", "example", "com">>, <<"WWW", "example", "com">> }

MatchPaths ==
    { Star, <<"/", "x">>, <<"/", "x", "/", "y">>, <<"/", "X">> }

(* What getServerUrlInfo 83-111 hands to the matcher: the protocol of the  *)
(* request, the host and path parsed from the proxy path, no matchAll.     *)
MatchRequests ==
    { RequestParts(protocol, hostname, path) :
        protocol \in {"http", "https"}, hostname \in MatchHosts, path \in MatchPaths }

(* serverUrls entries, Configuration.js 364-400: protocol '*' when the url *)
(* names none, path '*' when it names none, matchAll as configured.        *)
MatchResource(protocol, hostname, path, matchAll) ==
    ServerUrl("resource", protocol, hostname, path, matchAll, 0, 0, "none")

MatchResources ==
    { MatchResource(protocol, hostname, path, matchAll) :
        protocol \in {"http", "*"}, hostname \in MatchHosts, path \in MatchPaths,
        matchAll \in BOOLEAN }

ResourceLists ==
    LET
        (* The entries the Resource lists are made of. *)
        ListedResources ==
            { MatchResource("http", <<"www", "example", "com">>, Star, TRUE),
              MatchResource("*", <<"*", "example", "com">>, Star, TRUE),
              MatchResource("http", <<"www", "example", "com">>, <<"/", "x">>, FALSE),
              MatchResource("http", <<"www", "example", "com">>, <<"/", "x", "/", "y">>, TRUE) }
    IN
    UNION { [1..n -> ListedResources] : n \in 1..MaxResources }

(* Allow-list entries as Configuration.js 270-296 stores them. *)
WildReferrer ==
    [protocol |-> "*", hostname |-> <<"*", "example", "org">>, path |-> <<"/", "p">>,
     referrer |-> "*://*.example.org/p"]

AllowLists ==
    LET
        ListedReferrers ==
            LET
                HttpsReferrer ==
                    [protocol |-> "https", hostname |-> Star, path |-> <<"/", "p", "/", "1">>,
                     referrer |-> "https://*/p/1"]
            IN
            {StarReferrer, AppReferrer, WildReferrer, HttpsReferrer}
    IN
    UNION { [1..n -> ListedReferrers] : n \in 1..MaxReferrers }

Referrers ==
    { "", "*", ReferrerApp, ReferrerEvil, "HTTPS://App.Example.org/p/1",
      "http://app.example.org/p", "app.example.org", "https://*.example.org/p",
      "https://deep.app.example.org/p" }

(* The configuration with the given Resource list. *)
withServerUrls(serverUrls) == [cfg EXCEPT !.serverUrls = serverUrls]

(* The configuration with the given allow-list and matchAllReferrer        *)
(* setting, Configuration.js 206-213 and 270-296.                          *)
withAllowedReferrers(allowedReferrers, matchAllReferrer) ==
    [cfg EXCEPT !.allowedReferrers = allowedReferrers,
                !.matchAllReferrer = matchAllReferrer,
                !.allowAnyReferrer = \E i \in 1..Len(allowedReferrers) :
                                         allowedReferrers[i].referrer = "*"]

UnchangedByMatch ==
    UNCHANGED <<calls, cfg, now, dbConnection, rows, dbQueue, stats, token, req,
                serverUp, admitLog, peer, starts>>

(* getServerUrlInfo 114: one Resource tested against the request. *)
callParsedUrlPartsMatch(urlParts, serverUrl) ==
    /\ probe = NoProbe
    /\ probe' = [op |-> "parsedUrlPartsMatch",
                 urlParts |-> urlParts, serverUrl |-> serverUrl,
                 result |-> parsedUrlPartsMatch(urlParts, serverUrl)]
    /\ UnchangedByMatch

(* processRequest's lookup of the Resource of a request. *)
callGetServerUrlInfo(urlParts, serverUrls) ==
    /\ probe = NoProbe
    /\ probe' = [op |-> "getServerUrlInfo",
                 urlParts |-> urlParts, serverUrls |-> serverUrls,
                 result |-> getServerUrlInfo(urlParts, withServerUrls(serverUrls))]
    /\ UnchangedByMatch

(* processRequest 805: the referrer of a request is validated. *)
callValidatedReferrerFromReferrer(referrer, allowedReferrers, matchAllReferrer) ==
    /\ probe = NoProbe
    /\ probe' = [op |-> "validatedReferrerFromReferrer",
                 referrer |-> referrer, allowedReferrers |-> allowedReferrers,
                 matchAllReferrer |-> matchAllReferrer,
                 result |-> validatedReferrerFromReferrer(referrer,
                              withAllowedReferrers(allowedReferrers, matchAllReferrer))]
    /\ UnchangedByMatch

(* buildURLFromReferrerRequestAndInfo 541-566: the upstream URL starts as  *)
(* serverURLInfo.url and only a protocol and a query are added to it, so   *)
(* its path is the path the Resource was configured with ('*' is no path). *)
proxyRequestPath(urlRequestedParts, serverURLInfo) ==
    IF serverURLInfo.path = Star THEN <<>> ELSE serverURLInfo.path

(* processValidatedRequest 528, 546-560 for a request that getServerUrlInfo *)
(* matched with the Resource: the path of the upstream call.               *)
callBuildURLFromReferrerRequestAndInfo(urlParts, serverUrl) ==
    /\ probe = NoProbe
    /\ parsedUrlPartsMatch(urlParts, serverUrl)
    /\ probe' = [op |-> "buildURLFromReferrerRequestAndInfo",
                 urlParts |-> urlParts, serverUrl |-> serverUrl,
                 result |-> proxyRequestPath(urlParts, serverUrl)]
    /\ UnchangedByMatch

NextMatch ==
    \/ \E urlParts \in MatchRequests, serverUrl \in MatchResources :
          callParsedUrlPartsMatch(urlParts, serverUrl)
    \/ \E urlParts \in MatchRequests, serverUrls \in ResourceLists :
          callGetServerUrlInfo(urlParts, serverUrls)
    \/ \E urlParts \in MatchRequests, serverUrl \in MatchResources :
          callBuildURLFromReferrerRequestAndInfo(urlParts, serverUrl)
    \/ \E referrer \in Referrers, allowedReferrers \in AllowLists,
          matchAllReferrer \in BOOLEAN :
          callValidatedReferrerFromReferrer(referrer, allowedReferrers, matchAllReferrer)

SpecMatch == InitAtRest /\ [][NextMatch]_vars

----------------------------------------------------------------------------
(* findTokenInString applied on its own. *)

callFindTokenInString(source) ==
    /\ probe = NoProbe
    /\ probe' = [op |-> "findTokenInString", source |-> source,
                 result |-> findTokenInSource(source)]
    /\ UnchangedByMatch

NextToken ==
    /\ probe = NoProbe
    /\ \E source \in Sources : callFindTokenInString(source)

SpecToken == InitAtRest /\ [][NextToken]_vars

----------------------------------------------------------------------------
(* The response of the upstream on its way to the client, byte by byte:    *)
(* proxyResponseRewrite and checkServerResponseForMissingToken.            *)

WmsXml == "application/vnd.ogc.wms_xml"
TextXml == "text/xml"

(* A Content-Type header as the lexemes it is made of; <<>> is no header.  *)
ContentTypes ==
    { <<>>, <<WmsXml>>, <<WmsXml, ";charset=utf-8">>, <<"text/html">> }

(* String.replace(lookFor, replaceWith) with a string pattern. *)
replace(header, lookFor, replaceWith) ==
    IF indexOf(header, lookFor) = 0 THEN header
    ELSE [header EXCEPT ![indexOf(header, lookFor)] = replaceWith]

Bodies ==
    LET
        (* A body byte is an ASCII character or a byte that is no UTF-8 text, as   *)
        (* the 0x8b every gzip stream begins with.                                 *)
        BodyBytes == {"{", "0x8b"}
    IN
    UNION { [1..n -> BodyBytes] : n \in 0..MaxBodyLen }

(* Buffer.toString() followed by response.write(string): every byte that   *)
(* is no UTF-8 text comes back as the three bytes of U+FFFD.               *)
RECURSIVE writeOfToString(_)
writeOfToString(body) ==
    IF body = <<>> THEN <<>>
    ELSE (IF Head(body) = "0x8b" THEN <<"0xef", "0xbf", "0xbd">> ELSE <<Head(body)>>)
         \o writeOfToString(Tail(body))

(* checkServerResponseForMissingToken 995-1036 for a body without an auth   *)
(* error: write is replaced by a collector and end writes                   *)
(* buffer.toBuffer().toString(); tokenIsMissing stays false (the inspection *)
(* throws or is skipped).                                                   *)
checkServerResponseForMissingToken(body) == writeOfToString(body)

(* proxyResponseRewrite 895-918 and the pipe of the proxy behind it. *)
callProxyResponseRewrite(mayRequireToken, contentType, encoding, body) ==
    /\ probe = NoProbe
    /\ probe' = [op |-> "proxyResponseRewrite",
                 mayRequireToken |-> mayRequireToken,
                 upstream |-> [contentType |-> contentType, encoding |-> encoding,
                               body |-> body],
                 client |-> [contentType |-> IF contentType = <<>> THEN <<>>
                                             ELSE replace(contentType, WmsXml, TextXml),
                             encoding |-> encoding,
                             body |-> IF mayRequireToken
                                      THEN checkServerResponseForMissingToken(body)
                                      ELSE body]]
    /\ UnchangedByMatch

NextRewrite ==
    \E mayRequireToken \in BOOLEAN, contentType \in ContentTypes,
       encoding \in ContentEncodings, body \in Bodies :
       callProxyResponseRewrite(mayRequireToken, contentType, encoding, body)

SpecRewrite == InitAtRest /\ [][NextRewrite]_vars

----------------------------------------------------------------------------
(* The dispatcher as a function of one request: which answer processRequest *)
(* gives, for both proxy scripts, any method and any path.                  *)

NoStaticFilePath == "null"

(* proxyServeFile 941-967: what it sends.  A GET for a path other than '/'  *)
(* is handed to the static file server when a directory is configured      *)
(* (which answers with the file or its own 404) and is given no answer      *)
(* otherwise: responseStatus is still 200 and nothing is sent.              *)
proxyServeFileResponse(method, action, staticFilePath) ==
    IF method # "GET" THEN "405"
    ELSE IF action = "/" THEN "404"
    ELSE IF staticFilePath # NoStaticFilePath THEN "served"
    ELSE "none"

(* processRequest, part_002 798-847 and part_001 745-790: 0.1.3 answers the *)
(* ping path before it validates the referrer, 0.1.5 validates first.       *)
(* 0.1.3 has no staticFilePath setting and serves from its assets folder    *)
(* (part_001 886-900).                                                      *)
processRequest(version, method, in, c, staticFilePath) ==
    LET referrer == validatedReferrerFromReferrer(refererOrStar(in.referer), c)
    IN IF version = "0.1.3" /\ in.listenPath = c.localPingURL THEN "ping"
       ELSE IF referrer = NoReferrer THEN "403"
       ELSE IF in.listenPath = c.localPingURL THEN "ping"
       ELSE IF in.listenPath = c.localStatusURL THEN "status"
       ELSE IF route(in, c) = "file"
            THEN proxyServeFileResponse(method, in.listenPath,
                     IF version = "0.1.3" THEN "assets" ELSE staticFilePath)
            ELSE route(in, c)

callProcessRequest(version, method, in, allowedReferrers, staticFilePath) ==
    /\ probe = NoProbe
    /\ probe' = [op |-> "processRequest", version |-> version, method |-> method,
                 input |-> in, allowedReferrers |-> allowedReferrers,
                 staticFilePath |-> staticFilePath,
                 result |-> processRequest(version, method, in,
                                           withAllowedReferrers(allowedReferrers, TRUE),
                                           staticFilePath)]
    /\ UnchangedByMatch

NextDispatch ==
    \E version \in ProxyVersions, method \in Methods, referer \in Referrers,
       listenPath \in {"/ping", "/status", "/proxy", "/index.html", "/"},
       allowedReferrers \in AllowedReferrerLists,
       staticFilePath \in {NoStaticFilePath, "assets"} :
       callProcessRequest(version, method, RequestInput(referer, listenPath, TargetA),
                          allowedReferrers, staticFilePath)

SpecDispatch == InitAtRest /\ [][NextDispatch]_vars

----------------------------------------------------------------------------
(* The meter's table over the life of the store: start(), admission       *)
(* checks, stop(), start() again and refreshUrlTable.  The table is the    *)
(* sequence of the rows of ips in insertion order; proxy.sqlite is a file, *)
(* so the table outlives the connection.                                   *)

(* Resource lists: a capped Resource alone, with an uncapped one on either *)
(* side, with another capped one, listed twice, and no capped Resource.    *)
(* The caps give windows of 20 s and of 60 s.                              *)
StoreServerUrls ==
    LET a == ServerUrl(UrlA, "http", <<"a", "com">>, Star, TRUE, 3, 1, "none")
        b == ServerUrl(UrlB, "https", <<"b", "com">>, <<"/", "x">>, TRUE, 0, 0, "user")
        c == ServerUrl("http://c.com", "http", <<"c", "com">>, Star, TRUE, 1, 1, "none")
    IN { <<a>>, <<a, b>>, <<b, a>>, <<a, c>>, <<a, a>>, <<b>> }

(* A plain INSERT: the row is added whatever the table holds. *)
insertOrIgnore_plainInsert(table, url, referrer, timeOfAccess) ==
    Append(table, [id |-> Len(table) + 1, url |-> url, referrer |-> referrer,
                   count |-> 0, time |-> timeOfAccess, total |-> 0, rejected |-> 0])

(* 88 and 85: INSERT OR IGNORE under the unique index url_referrer; id is  *)
(* the INTEGER PRIMARY KEY, one more than the largest in the table.        *)
insertOrIgnore(table, url, referrer, timeOfAccess) ==
    IF \E k \in 1..Len(table) : table[k].url = url /\ table[k].referrer = referrer
    THEN table
    ELSE Append(table, [id |-> Len(table) + 1, url |-> url, referrer |-> referrer,
                        count |-> 0, time |-> timeOfAccess, total |-> 0, rejected |-> 0])

(* 89-97: the two loops, pair n of Resource and referrer in row-major      *)
(* order; a Resource without useRateMeter inserts nothing.                 *)
RECURSIVE insertIps(_, _, _, _)
insertIps(table, c, n, timeOfAccess) ==
    IF n > Len(c.serverUrls) * Len(c.allowedReferrers) THEN table
    ELSE LET serverURL == c.serverUrls[((n - 1) \div Len(c.allowedReferrers)) + 1]
             referrer == c.allowedReferrers[((n - 1) % Len(c.allowedReferrers)) + 1].referrer
         IN insertIps(IF serverURL.useRateMeter
                      THEN insertOrIgnore(table, serverURL.url, referrer, timeOfAccess)
                      ELSE table,
                      c, n + 1, timeOfAccess)

(* What the store has been asked last and how many admission checks it    *)
(* has answered: before is the table start() found, newTable and thrown    *)
(* are the argument and the end of refreshUrlTable.                        *)
StoreCall(op, checks, before, newTable, thrown) ==
    [op |-> op, checks |-> checks, before |-> before, newTable |-> newTable,
     thrown |-> thrown]

UnchangedByStore ==
    UNCHANGED <<calls, cfg, dbQueue, stats, token, req, serverUp, admitLog, peer>>

(* start(), 138-149: the connection is opened and                          *)
(* createDatabaseIfNotExists is its first batch; the batch is serialized   *)
(* before every later statement of the connection.                         *)
storeStart ==
    LET
        (* 84-97: DELETE from ips, then the INSERTs. *)
        createIps(c, timeOfAccess) == insertIps(<<>>, c, 1, timeOfAccess)
    IN
    /\ dbConnection = "null"
    /\ probe.op # "refreshUrlTable"
    /\ starts < MaxStoreStarts
    /\ starts' = starts + 1
    /\ dbConnection' = "open"
    /\ rows' = createIps(cfg, now)
    /\ probe' = StoreCall("start", probe.checks, rows, <<>>, FALSE)
    /\ UNCHANGED now
    /\ UnchangedByStore

(* stop(), 154-159. *)
storeStop ==
    /\ dbConnection = "open"
    /\ probe.op # "refreshUrlTable"
    /\ dbConnection' = "null"
    /\ UNCHANGED <<now, rows, starts, probe>>
    /\ UnchangedByStore

(* isUnderRate(referrer, url) for the pair of row index, one call at a     *)
(* time: the SELECT, the decision and the UPDATE of 232-303.               *)
storeIsUnderRate(index) ==
    /\ dbConnection = "open"
    /\ probe.op # "refreshUrlTable"
    /\ probe.checks < MaxStoreChecks
    /\ LET queryResult == rows[index]
           serverURL == cfg.serverUrls[CHOOSE k \in 1..Len(cfg.serverUrls) :
                                           cfg.serverUrls[k].url = queryResult.url]
           d == meterDecision(queryResult, serverURL, now)
       IN /\ rows' = runUpdate(rows, Statement("update", 0, queryResult.id, d.isOK,
                                               d.newCount, d.refreshTime))
          /\ probe' = StoreCall("isUnderRate", probe.checks + 1, <<>>, <<>>, FALSE)
    /\ UNCHANGED <<now, dbConnection, starts>>
    /\ UnchangedByStore

(* refreshUrlTable(serverUrls), 349-351 and 107-132: refreshServerUrls is  *)
(* called without newReferrers.  TRUNCATE TABLE is no statement of SQLite, *)
(* it fails and deletes nothing; newReferrers.length of the first Resource *)
(* with useRateMeter throws a TypeError before any INSERT.  The store is   *)
(* followed up to this call: the meter has no allow-list after it.         *)
storeRefreshUrlTable(newTable) ==
    /\ dbConnection = "open"
    /\ probe.op # "refreshUrlTable"
    /\ probe' = StoreCall("refreshUrlTable", probe.checks, <<>>, newTable,
                          \E k \in 1..Len(newTable) : newTable[k].useRateMeter)
    /\ UNCHANGED <<now, dbConnection, rows, starts>>
    /\ UnchangedByStore

InitStore ==
    LET
        NoStoreCall == StoreCall("none", 0, <<>>, <<>>, FALSE)
        (* Allow-lists: one pattern, two patterns, one pattern listed twice. *)
        StoreAllowLists ==
            { <<AppReferrer>>, <<AppReferrer, WildReferrer>>, <<AppReferrer, AppReferrer>> }
    IN
    /\ cfg \in { [Configuration(TRUE, allowedReferrers, <<3, 1>>)
                     EXCEPT !.serverUrls = serverUrls] :
                 allowedReferrers \in StoreAllowLists, serverUrls \in StoreServerUrls }
    /\ req = [r \in 1..MaxRequests |-> IdleRequest]
    /\ now = TickMs
    /\ dbConnection = "null"
    /\ rows = <<>>
    /\ dbQueue = <<>>
    /\ stats = [i \in 1..2 |-> [totalRequests |-> 0, firstRequest |-> 0, lastRequest |-> 0]]
    /\ token = [i \in 1..2 |-> 0]
    /\ serverUp = TRUE
    /\ admitLog = <<>>
    /\ peer = [phase |-> "idle", starts |-> 0]
    /\ starts = 0
    /\ probe = NoStoreCall
    /\ calls = NoCalls

(* The clock of the store. *)
storeTick ==
    /\ probe.op # "refreshUrlTable"
    /\ Tick

NextStore ==
    \/ storeTick
    \/ storeStart
    \/ storeStop
    \/ \E index \in 1..Len(rows) : storeIsUnderRate(index)
    \/ \E newTable \in StoreServerUrls : storeRefreshUrlTable(newTable)

SpecStore == InitStore /\ [][NextStore]_vars

----------------------------------------------------------------------------
(* Configuration load: the credential properties of one serverUrls entry.  *)
(* A property is "" when the entry does not have it or has it empty, which *)
(* isPropertySet, getIfPropertySet, isUserLogin and isAppLogin treat       *)
(* alike.                                                                  *)

(* postParseConfigurationFile 373 and 439-461, with isUserLogin 49-55 and  *)
(* isAppLogin 63-69, which reads clientid and clientsecret; the entry is   *)
(* accepted by isConfigurationValid 120-126 when errorMessage is ''.       *)
postParseServerUrl(serverUrl) ==
    LET oauthIsSet == \/ isPropertySet(serverUrl.clientId)
                      \/ isPropertySet(serverUrl.clientSecret)
                      \/ isPropertySet(serverUrl.oauth2Endpoint)
        loginIsSet == \/ isPropertySet(serverUrl.username)
                      \/ isPropertySet(serverUrl.password)
        errorMessage ==
            IF loginIsSet /\ (serverUrl.username = "" \/ serverUrl.password = "")
            THEN "Must provide username/password"
            ELSE IF oauthIsSet /\ (serverUrl.clientId = "" \/ serverUrl.clientSecret = "")
                 THEN "OAuth requires clientId, clientSecret, oauth2Endpoint"
                 ELSE ""
        userLogin == serverUrl.username # "" /\ serverUrl.password # ""
        appLogin == serverUrl.clientid # "" /\ serverUrl.clientsecret # ""
    IN [errorMessage |-> errorMessage,
        isUserLogin |-> userLogin,
        isAppLogin |-> appLogin,
        mayRequireToken |-> isPropertySet(serverUrl.accessToken) \/ userLogin
                            \/ appLogin]

(* loadConfigurationFile 492-503 for a file with the one entry: the server *)
(* is started when isConfigurationValid accepts it.  intercepted tells     *)
(* whether proxyResponseRewrite 897-903 hands the responses of the         *)
(* Resource to checkServerResponseForMissingToken.                         *)
callPostParseConfigurationFile(serverUrl) ==
    /\ probe' = [op |-> "postParseConfigurationFile",
                 serverUrl |-> serverUrl,
                 parsed |-> postParseServerUrl(serverUrl),
                 isValid |-> postParseServerUrl(serverUrl).errorMessage = "",
                 intercepted |-> postParseServerUrl(serverUrl).mayRequireToken]
    /\ UnchangedByMatch

NextConfig ==
    /\ probe = NoProbe
    /\ \E serverUrl \in [ {"clientId", "clientSecret", "oauth2Endpoint", "clientid",
                            "clientsecret", "username", "password", "accessToken"}
                           -> {"", "x"} ] :
          callPostParseConfigurationFile(serverUrl)

SpecConfig == InitAtRest /\ [][NextConfig]_vars

----------------------------------------------------------------------------
(* Properties *)

(* C1: the read of a meter row and its update are one atomic step: the      *)
(* calls admitted inside one window of a row each took a different count    *)
(* (no two read the same windowCount and were both admitted), and there are *)
(* at most rateLimit of them.                                               *)
C1_AdmissionsOfOneWindowAreSerialized ==
    \A i \in 1..Len(admitLog) :
        LET same == { j \in 1..Len(admitLog) :
                        /\ admitLog[j].key = admitLog[i].key
                        /\ admitLog[j].windowStart = admitLog[i].windowStart }
            serverURL == cfg.serverUrls[CHOOSE k \in 1..Len(cfg.serverUrls) :
                                           cfg.serverUrls[k].url = admitLog[i].key[1]]
        IN /\ \A j \in same : j # i => admitLog[j].newCount # admitLog[i].newCount
           /\ Cardinality(same) <= serverURL.rateLimit

(* C2: while a window is active (count > 0 and the request's time before    *)
(* windowStart + windowSeconds) a request is admitted if and only if the    *)
(* row's count is below rateLimit, and the admission's UPDATE sets the      *)
(* count to count + 1 and leaves windowStart where it was.                  *)
C2_ActiveWindowAdmitsBelowRateLimit ==
    [][ \A r \in Requests :
          ( /\ req[r].pc = "select"
            /\ req'[r].isUnderCap \in {"true", "false"}
            /\ meterKey(req[r]) \in DOMAIN rows
            /\ rows[meterKey(req[r])].count > 0
            /\ ~windowExpired(rows[meterKey(req[r])],
                              cfg.serverUrls[req[r].serverURLInfo],
                              req[r].timeOfRequest) )
          => /\ (req'[r].isUnderCap = "true")
                  <=> (rows[meterKey(req[r])].count
                         < cfg.serverUrls[req[r].serverURLInfo].rateLimit)
             /\ req'[r].isUnderCap = "true"
                  => /\ dbQueue'[Len(dbQueue')].isOK
                     /\ dbQueue'[Len(dbQueue')].newCount
                          = rows[meterKey(req[r])].count + 1
                     /\ dbQueue'[Len(dbQueue')].refreshTime
                          = rows[meterKey(req[r])].time
      ]_vars

(* C3: in any interval of rateLimitPeriod minutes at most rateLimit         *)
(* requests of one (resource, referrer) pair are admitted.                  *)
C3_AtMostRateLimitPerPeriod ==
    \A i \in 1..Len(admitLog) :
        LET serverURL == cfg.serverUrls[CHOOSE k \in 1..Len(cfg.serverUrls) :
                                           cfg.serverUrls[k].url = admitLog[i].key[1]]
            inPeriod == { j \in 1..Len(admitLog) :
                            /\ admitLog[j].key = admitLog[i].key
                            /\ admitLog[i].time <= admitLog[j].time
                            /\ admitLog[j].time < admitLog[i].time
                                 + serverURL.rateLimitPeriod * SecondsPerMinute * MsPerSecond }
        IN Cardinality(inPeriod) <= serverURL.rateLimit

(* C4: every interval shorter than the window length windowSeconds holds    *)
(* at most rateLimit admissions of one row.                                 *)
C4_AtMostCapInLessThanAWindow ==
    \A i \in 1..Len(admitLog) :
        LET serverURL == cfg.serverUrls[CHOOSE k \in 1..Len(cfg.serverUrls) :
                                           cfg.serverUrls[k].url = admitLog[i].key[1]]
            inInterval == { j \in 1..Len(admitLog) :
                              /\ admitLog[j].key = admitLog[i].key
                              /\ admitLog[i].time <= admitLog[j].time
                              /\ (admitLog[j].time - admitLog[i].time) * serverURL.rateNum
                                   < serverURL.rateDen * MsPerSecond }
        IN Cardinality(inInterval) <= serverURL.rateLimit

(* C5: in every reachable state every meter row's count is at most the      *)
(* rateLimit of its Resource.                                               *)
C5_WindowCountWithinRateLimit ==
    \A key \in DOMAIN rows :
        \A k \in 1..Len(cfg.serverUrls) :
            cfg.serverUrls[k].url = key[1] => rows[key].count <= cfg.serverUrls[k].rateLimit

(* A row that has given out its whole rateLimit and has then rejected. *)
C5_Witness ==
    \E key \in DOMAIN rows :
        /\ rows[key].rejected > 0
        /\ \E k \in 1..Len(cfg.serverUrls) :
              /\ cfg.serverUrls[k].url = key[1]
              /\ rows[key].count = cfg.serverUrls[k].rateLimit

C7_DeniedIsNotForwardedNorCounted ==
    /\ [](\A r \in Requests :
            /\ req[r].isUnderCap = "false"
                 => /\ req[r].pc = "done"
                    /\ req[r].responses = <<[code |-> 429, body |-> "error"]>>
                    /\ req[r].forwards = 0
            /\ ( /\ req[r].forwards > 0
                 /\ req[r].serverURLInfo # 0
                 /\ cfg.serverUrls[req[r].serverURLInfo].useRateMeter )
                 => req[r].isUnderCap = "true")
    /\ [][ (\E r \in Requests : req[r].isUnderCap = "none" /\ req'[r].isUnderCap = "false")
              => stats' = stats ]_vars

(* One request was admitted and forwarded, a later one denied with 429.     *)
C7_Witness ==
    \E r, d \in Requests :
        /\ req[r].isUnderCap = "true" /\ req[r].forwards = 1
        /\ req[d].isUnderCap = "false"
        /\ req[d].responses = <<[code |-> 429, body |-> "error"]>>
        /\ stats[req[d].serverURLInfo].totalRequests = 1

(* C8: when the meter store cannot answer (not started or stopped, the      *)
(* query fails, or the pair has no row) the request is answered 420, is     *)
(* not forwarded, and no row update is issued for it.                       *)
C8_MeterFailureAnswers420 ==
    \A r \in Requests :
        req[r].failure \in {"not started", "select failed", "no row"}
        => /\ req[r].pc = "done"
           /\ req[r].responses = <<[code |-> 420, body |-> "error"]>>
           /\ req[r].forwards = 0
           /\ \A k \in 1..Len(dbQueue) : dbQueue[k].r # r

(* C9: a request under a listen path whose target matches no Resource is    *)
(* answered 404 when mustMatch is on, and with mustMatch off it is          *)
(* forwarded to the named target through the pass-through Resource.         *)
C9_UnmatchedTargetIs404OrPassedThrough ==
    \A r \in Requests :
        ( /\ req[r].pc # "idle"
          /\ req[r].referrer # NoReferrer
          /\ req[r].input.listenPath \in cfg.listenURI
          /\ getServerUrlInfo(req[r].input.target, cfg) = 0 )
        => IF cfg.mustMatch
           THEN /\ req[r].responses = <<[code |-> 404, body |-> "error"]>>
                /\ req[r].forwards = 0
           ELSE req[r].forwards > 0

(* C10: when the upstream of a credential-bearing Resource answers with an  *)
(* error envelope of code 403, 498 or 499, that response is not delivered:  *)
(* the token is replaced, the request is replayed once, and the client      *)
(* gets exactly one response, which is not the error envelope.              *)
C10_ExpiredTokenIsReplacedAndReplayed ==
    \A r \in Requests :
        ( /\ req[r].pc = "done"
          /\ req[r].serverURLInfo # 0
          /\ cfg.serverUrls[req[r].serverURLInfo].mayRequireToken
          /\ req[r].upstream \in {"error403", "error498", "error499"} )
        => /\ req[r].forwards = 2
           /\ Len(req[r].responses) = 1
           /\ req[r].responses[1].body \notin {"error403", "error498", "error499"}
           /\ token[req[r].serverURLInfo] > 0

C12_CredentialResourceGetsBrokerToken ==
    ( /\ probe.op \in {"processValidatedRequest", "proxyResponseError"}
      /\ probe.forwards = 1
      /\ probe.serverURLInfo.credentials \in {"user", "app"}
      /\ ~hasKey(queryStringToObject(probe.query), "token") )
    => /\ probe.tokenRequests >= 1
       /\ hasKey(queryStringToObject(probe.proxyRequest.query), "token")
       /\ valueOf(queryStringToObject(probe.proxyRequest.query), "token") # ""

(* C15: the error envelope the proxy sends when the upstream call fails is *)
(* the same whatever the Resource's access token is: no field of it        *)
(* carries the credential.                                                 *)
C15_ErrorEnvelopeIndependentOfCredential ==
    ( /\ probe.op = "proxyResponseError"
      /\ probe.serverURLInfo.accessToken # "" )
    => \A secret \in AccessTokens \ {""} :
          errorEnvelope(proxyRequestOf(probe.version, probe.method, probe.query,
                                       [probe.serverURLInfo EXCEPT !.accessToken = secret]),
                        502, "Proxy request error")
            = probe.response

(* C20: the query sent upstream is the configured parameters overlaid with *)
(* the request's (the request wins on a shared key, keys of one side are   *)
(* kept), plus token = the static access token when and only when that map *)
(* has no token; the upstream URL carries exactly these pairs.             *)
C20_UpstreamQueryIsMergedMap ==
    (probe.op \in {"processValidatedRequest", "proxyResponseError"}
        /\ probe.forwards = 1)
    => LET configured == queryStringToObject(probe.serverURLInfo.query)
           requested == queryStringToObject(probe.query)
           merged == { <<k, v>> \in {"f", "token"} \X {"json", "pjson", "U", ""} :
                         \/ hasKey(requested, k) /\ valueOf(requested, k) = v
                         \/ ~hasKey(requested, k) /\ hasKey(configured, k)
                              /\ valueOf(configured, k) = v }
           expected == IF (\E pair \in merged : pair[1] = "token")
                          \/ probe.serverURLInfo.accessToken = ""
                       THEN merged
                       ELSE merged \cup {<<"token", probe.serverURLInfo.accessToken>>}
           sent == queryStringToObject(probe.proxyRequest.query)
       IN { sent[i] : i \in 1..Len(sent) } = expected

(* C13: for one Resource at most one token acquisition has a network call  *)
(* in flight at any time: a caller that asks while one is running starts   *)
(* no call of its own.                                                     *)
C13_OneAcquisitionInFlight ==
    Cardinality({ i \in 1..Len(calls) :
                    calls[i].pc \in {"appToken", "exchange", "info", "userToken"} }) <= 1

(* C14: every token acquisition ends, as a success with a non-empty token  *)
(* or as an error: a network error, a status above 399, an error body or   *)
(* an answer without a token ends it as an error, a Resource without       *)
(* credentials ends it as an error, and nothing more is asked after a      *)
(* failure.                                                                *)
C14_AcquisitionEndsWithTokenOrError ==
    \A i \in 1..Len(calls) :
        /\ calls[i].pc # "never settles"
        /\ calls[i].outcome = "resolved" => calls[i].value # ""
        /\ calls[i].last \in {"networkError", "status500", "errorBody", "noToken",
                              "notJSON", "noEndpoint"}
              => calls[i].outcome = "rejected" /\ calls[i].pc = "settled"
        /\ calls[i].mode = "none" => calls[i].outcome = "rejected"

(* C16: a request host matches a Resource host exactly when both have the   *)
(* same number of segments and every segment of the Resource is * or equals *)
(* the request's segment ignoring case; a * in the request host is an       *)
(* ordinary segment.  Stated for the Resources whose protocol and path are  *)
(* *, where the host decides the match.                                     *)
C16_HostMatchesByResourceWildcard ==
    (probe.op = "parsedUrlPartsMatch"
        /\ probe.serverUrl.protocol = "*" /\ probe.serverUrl.path = Star)
    => LET R == probe.urlParts.hostname
           S == probe.serverUrl.hostname
           lower(segment) == IF segment = "WWW" THEN "www" ELSE segment
       IN probe.result
            <=> (/\ Len(R) = Len(S)
                 /\ \A i \in 1..Len(S) : S[i] = "*" \/ lower(S[i]) = lower(R[i]))

(* C17: the path of a request is matched under the Resource's matchAll      *)
(* flag: exactly, or any path for the Resource path '*', when it is set,    *)
(* and otherwise when the Resource path is '*' or a case-insensitive prefix *)
(* of the request path.                                                     *)
(* Stated for a request whose host is the Resource's host, without          *)
(* wildcard, and a Resource of any protocol, where the path decides.        *)
C17_PathMatchesByResourceMatchAll ==
    (probe.op = "parsedUrlPartsMatch"
        /\ probe.serverUrl.protocol = "*"
        /\ probe.urlParts.hostname = probe.serverUrl.hostname
        /\ \A i \in 1..Len(probe.serverUrl.hostname) : probe.serverUrl.hostname[i] # "*")
    => LET R == probe.urlParts
           S == probe.serverUrl
       IN probe.result
            <=> IF S.matchAll
                THEN S.path = Star \/ R.path = S.path
                ELSE S.path = Star
                       \/ (/\ Len(S.path) <= Len(R.path)
                           /\ toLowerCase(SubSeq(R.path, 1, Len(S.path)))
                                = toLowerCase(S.path))

(* C18: getServerUrlInfo returns the first Resource of the list, in         *)
(* configuration order, that satisfies the host, protocol and path rules of *)
(* the Resource matcher, and null (0) when no Resource of the list does.    *)
C18_FirstResourceSatisfyingRules ==
    probe.op = "getServerUrlInfo"
    => LET R == probe.urlParts
           lower(segment) == IF segment = "WWW" THEN "www" ELSE segment
           hostRule(S) ==
               /\ Len(R.hostname) = Len(S.hostname)
               /\ \A i \in 1..Len(S.hostname) :
                      S.hostname[i] = "*" \/ lower(S.hostname[i]) = lower(R.hostname[i])
           protocolRule(S) ==
               S.protocol = "*" \/ R.protocol = "*" \/ S.protocol = R.protocol
           pathRule(S) ==
               IF S.matchAll
               THEN S.path = Star \/ R.path = S.path
               ELSE S.path = Star
                      \/ (/\ Len(S.path) <= Len(R.path)
                          /\ toLowerCase(SubSeq(R.path, 1, Len(S.path)))
                               = toLowerCase(S.path))
           satisfying == { i \in 1..Len(probe.serverUrls) :
                             /\ hostRule(probe.serverUrls[i])
                             /\ protocolRule(probe.serverUrls[i])
                             /\ pathRule(probe.serverUrls[i]) }
       IN /\ satisfying = {} => probe.result = 0
          /\ satisfying # {} => /\ probe.result \in satisfying
                                /\ \A j \in satisfying : probe.result <= j

(* C19: validatedReferrerFromReferrer answers '*' for every referrer when   *)
(* the allow-list contains *; otherwise the key of the first pattern whose  *)
(* protocol (pattern * or equal), host (pattern * or segment by segment,    *)
(* pattern segment * or equal) and path (pattern *, equal, or with          *)
(* matchAllReferrer off a prefix of the referrer's path) match the          *)
(* lower-cased referrer, and the rejection when there is none.  A * of the  *)
(* referrer is an ordinary character.                                       *)
C19_ReferrerKeyIsFirstMatchingPattern ==
    probe.op = "validatedReferrerFromReferrer"
    => LET patterns == probe.allowedReferrers
           keys == { patterns[i].referrer : i \in 1..Len(patterns) }
           parts == referrerParts(probe.referrer)
           hostRule(pattern) ==
               /\ Len(pattern.hostname) = Len(parts.hostname)
               /\ \A i \in 1..Len(pattern.hostname) :
                      pattern.hostname[i] = "*" \/ pattern.hostname[i] = parts.hostname[i]
           pathRule(pattern) ==
               \/ pattern.path = Star
               \/ pattern.path = parts.path
               \/ /\ ~probe.matchAllReferrer
                  /\ Len(pattern.path) <= Len(parts.path)
                  /\ SubSeq(parts.path, 1, Len(pattern.path)) = pattern.path
           matching == { i \in 1..Len(patterns) :
                           /\ patterns[i].protocol \in {"*", parts.protocol}
                           /\ patterns[i].hostname = Star \/ hostRule(patterns[i])
                           /\ pathRule(patterns[i]) }
       IN /\ probe.result \in {"*", NoReferrer} \cup keys
          /\ IF "*" \in keys THEN probe.result = "*"
             ELSE IF probe.referrer = "" \/ matching = {} THEN probe.result = NoReferrer
             ELSE \E i \in matching :
                     /\ \A j \in matching : i <= j
                     /\ probe.result = patterns[i].referrer

(* Two patterns match the mixed-case referrer, the second by its path       *)
(* prefix; the key of the first is returned.                                *)
C19_Witness ==
    /\ probe.op = "validatedReferrerFromReferrer"
    /\ probe.referrer = "HTTPS://App.Example.org/p/1"
    /\ probe.allowedReferrers = <<WildReferrer, AppReferrer>>
    /\ ~probe.matchAllReferrer
    /\ probe.result = WildReferrer.referrer

(* C21: for a matched Resource without hostRedirect the upstream URL is the *)
(* Resource's host and path followed by what the request path has beyond    *)
(* the Resource path.  Stated for the requests whose path begins with the   *)
(* Resource path, or whose Resource has the path '*'.                       *)
C21_UpstreamPathKeepsRequestTail ==
    probe.op = "buildURLFromReferrerRequestAndInfo"
    => LET R == probe.urlParts.path
           S == probe.serverUrl.path
           requested == IF R = Star THEN <<>> ELSE R
           extends == /\ S # Star
                      /\ Len(S) <= Len(requested)
                      /\ SubSeq(requested, 1, Len(S)) = S
       IN /\ S = Star => probe.result = requested
          /\ extends => probe.result = S \o SubSeq(requested, Len(S) + 1, Len(requested))

(* C22: findTokenInString returns the value X of the query form token=X     *)
(* that follows a ? or an & (X ends at the next & or at the end), otherwise *)
(* the X of the JSON form "token":"X" with blanks allowed after the colon,  *)
(* and '' when the source holds neither form.  Stated for the sources that  *)
(* do not begin with token= .                                               *)
C22_TokenValueIsExtracted ==
    (probe.op = "findTokenInString"
        /\ (probe.source = <<>> \/ probe.source[1] # TokenEquals))
    => LET s == probe.source
           n == Len(s)
           queryForms == { i \in 2..n : s[i] = TokenEquals /\ s[i-1] \in {"?", "&"} }
           queryEnd(i) == IF \E k \in (i+1)..n : s[k] = "&"
                          THEN (CHOOSE k \in (i+1)..n :
                                   /\ s[k] = "&"
                                   /\ \A m \in (i+1)..(k-1) : s[m] # "&") - 1
                          ELSE n
           jsonForms == { f \in (1..n) \X (1..n) \X (1..n) :
                            /\ f[1] < f[2] /\ f[2] < f[3]
                            /\ s[f[1]] = JsonTokenKey
                            /\ \A m \in (f[1]+1)..(f[2]-1) : s[m] = " "
                            /\ s[f[2]] = Quote /\ s[f[3]] = Quote
                            /\ \A m \in (f[2]+1)..(f[3]-1) : s[m] # Quote }
       IN IF queryForms # {}
          THEN \E i \in queryForms : probe.result = SubSeq(s, i + 1, queryEnd(i))
          ELSE IF jsonForms # {}
          THEN \E f \in jsonForms : probe.result = SubSeq(s, f[2] + 1, f[3] - 1)
          ELSE probe.result = <<>>

(* C23: the Content-Type the client gets is the upstream's with             *)
(* application/vnd.ogc.wms_xml replaced by text/xml, and the body bytes and *)
(* the Content-Encoding reach the client as the upstream sent them, also    *)
(* for a Resource with credentials.                                         *)
C23_OnlyContentTypeIsRewritten ==
    probe.op = "proxyResponseRewrite"
    => /\ probe.client.contentType
            = [i \in 1..Len(probe.upstream.contentType) |->
                 IF probe.upstream.contentType[i] = WmsXml THEN TextXml
                 ELSE probe.upstream.contentType[i]]
       /\ probe.client.encoding = probe.upstream.encoding
       /\ probe.client.body = probe.upstream.body

(* C24: a POST or PUT that passed the referrer test, matched a Resource and *)
(* was admitted is forwarded like a GET: the handler hands it to the proxy  *)
(* and ends without an exception.                                           *)
C24_PostAndPutAreForwarded ==
    (probe.op = "processValidatedRequest" /\ probe.method \in {"POST", "PUT"})
    => probe.forwards = 1 /\ ~probe.thrown

(* C25: a GET from an allowed referrer for a path that is neither the       *)
(* ping path, the status path nor a listen prefix is served from the static *)
(* directory when one is configured and answered 404 otherwise: a response  *)
(* is sent in both cases.  Stated for the proxy script that has the static  *)
(* directory setting.                                                       *)
C25_OtherPathIsServedOr404 ==
    (probe.op = "processRequest"
        /\ probe.version = "0.1.5"
        /\ probe.method = "GET"
        /\ probe.input.listenPath \notin {cfg.localPingURL, cfg.localStatusURL}
                                         \cup cfg.listenURI
        /\ probe.result # "403")
    => /\ probe.result # "none"
       /\ probe.result = IF probe.staticFilePath = NoStaticFilePath
                         THEN "404" ELSE "served"

(* C26: a request for the ping path or for the status path gets its status  *)
(* document whatever its Referer is, and never the 403 of the referrer      *)
(* test.                                                                    *)
C26_PingAndStatusSkipReferrerTest ==
    probe.op = "processRequest"
    => /\ probe.input.listenPath = cfg.localPingURL => probe.result = "ping"
       /\ probe.input.listenPath = cfg.localStatusURL => probe.result = "status"

(* C27: the meter's counters are durable: the windowCount, windowStart,     *)
(* total and rejected an admission check has written to a row before the   *)
(* store was stopped are the values the row holds when the next start()    *)
(* has completed, which are the values the first admission check after     *)
(* that start() reads.                                                     *)
C27_CountersSurviveRestart ==
    probe.op = "start"
    => \A k \in { n \in 1..Len(probe.before) :
                    probe.before[n].total + probe.before[n].rejected > 0 } :
          \E l \in 1..Len(rows) :
              /\ rows[l].url = probe.before[k].url
              /\ rows[l].referrer = probe.before[k].referrer
              /\ rows[l].count = probe.before[k].count
              /\ rows[l].time = probe.before[k].time
              /\ rows[l].total = probe.before[k].total
              /\ rows[l].rejected = probe.before[k].rejected

C29_RefreshReplacesRowsByNewProduct ==
    probe.op = "refreshUrlTable"
    => LET capped == { probe.newTable[i].url :
                         i \in { k \in 1..Len(probe.newTable) :
                                   /\ probe.newTable[k].rateLimit > 0
                                   /\ probe.newTable[k].rateLimitPeriod > 0 } }
           keys == { cfg.allowedReferrers[j].referrer : j \in 1..Len(cfg.allowedReferrers) }
       IN /\ { <<rows[k].url, rows[k].referrer>> : k \in 1..Len(rows) } = capped \X keys
          /\ \A k \in 1..Len(rows) :
                rows[k].count = 0 /\ rows[k].total = 0 /\ rows[k].rejected = 0

(* C30: when the admission check reads a row whose windowCount is 0 or      *)
(* whose window has ended (windowStart + windowSeconds <= the time of the   *)
(* request, windowSeconds = rateLimitPeriod * 60 / rateLimit), the request  *)
(* is admitted and the update it schedules sets windowCount to 1 and        *)
(* windowStart to the time of the request; that update, when it runs, adds  *)
(* one to total and leaves rejected and every other row as they are.        *)
C30_EmptyOrExpiredWindowIsReset ==
    [][ /\ \A r \in Requests :
             ( /\ req[r].pc = "select"
               /\ req'[r].isUnderCap \in {"true", "false"}
               /\ meterKey(req[r]) \in DOMAIN rows
               /\ LET row == rows[meterKey(req[r])]
                      resource == cfg.serverUrls[req[r].serverURLInfo]
                  IN \/ row.count = 0
                     \/ row.time * resource.rateLimit
                          + resource.rateLimitPeriod * SecondsPerMinute * MsPerSecond
                        <= req[r].timeOfRequest * resource.rateLimit )
             => /\ req'[r].isUnderCap = "true"
                /\ dbQueue'[Len(dbQueue')].op = "update"
                /\ dbQueue'[Len(dbQueue')].id = rows[meterKey(req[r])].id
                /\ dbQueue'[Len(dbQueue')].isOK
                /\ dbQueue'[Len(dbQueue')].newCount = 1
                /\ dbQueue'[Len(dbQueue')].refreshTime = req[r].timeOfRequest
        /\ ( /\ dbQueue # <<>>
             /\ Head(dbQueue).op = "update"
             /\ Head(dbQueue).isOK
             /\ Head(dbQueue).newCount = 1
             /\ dbQueue' = Tail(dbQueue) )
           => /\ DOMAIN rows' = DOMAIN rows
              /\ \A key \in DOMAIN rows :
                    IF rows[key].id = Head(dbQueue).id
                    THEN /\ rows'[key].count = 1
                         /\ rows'[key].time = Head(dbQueue).refreshTime
                         /\ rows'[key].total = rows[key].total + 1
                         /\ rows'[key].rejected = rows[key].rejected
                    ELSE rows'[key] = rows[key]
      ]_vars

(* A row that has admitted and rejected in one window and has been reset    *)
(* by an admission after the window ended.                                  *)
C30_Witness ==
    \E key \in DOMAIN rows :
        /\ rows[key].count = 1
        /\ rows[key].time > TickMs
        /\ rows[key].total >= 2
        /\ rows[key].rejected >= 1

C32_TotalRequestsCountsUpstreamCalls ==
    probe.op \in {"processValidatedRequest", "proxyResponseError"}
    => probe.totalRequests = probe.forwards

(* C40: attemptedRequests >= validProcessedRequests +                       *)
(* errorProcessedRequests: a request is counted once as attempted and at    *)
(* most once as processed or rejected, also when the forwarded request      *)
(* fails upstream and is answered with an error envelope.                   *)
C40_AttemptedCoversProcessedAndRejected ==
    probe.op \in {"processValidatedRequest", "proxyResponseError"}
    => probe.attemptedRequests
         >= probe.validProcessedRequests + probe.errorProcessedRequests

(* C33: the responses of a Resource are intercepted and searched for an     *)
(* auth-error envelope if and only if the Resource is credential-bearing:   *)
(* it has app credentials (clientId and clientSecret), user credentials     *)
(* (username and password) or a static accessToken.                         *)
C33_InterceptedIffCredentialBearing ==
    (probe.op = "postParseConfigurationFile" /\ probe.isValid)
    => ( probe.intercepted
         <=> \/ probe.serverUrl.clientId # "" /\ probe.serverUrl.clientSecret # ""
             \/ probe.serverUrl.username # "" /\ probe.serverUrl.password # ""
             \/ probe.serverUrl.accessToken # "" )

(* C36: a Resource that declares more than one credential mode is rejected *)
(* at load; a loaded Resource is never both isUserLogin and isAppLogin and  *)
(* has no accessToken together with either; a Resource that declares        *)
(* clientId and clientSecret is isAppLogin.                                 *)
C36_AtMostOneCredentialMode ==
    probe.op = "postParseConfigurationFile"
    => LET p == probe.serverUrl
           app == p.clientId # "" \/ p.clientSecret # ""
           user == p.username # "" \/ p.password # ""
           static == p.accessToken # ""
       IN /\ ((app /\ user) \/ (app /\ static) \/ (user /\ static)) => ~probe.isValid
          /\ probe.isValid
               => /\ ~(probe.parsed.isUserLogin /\ probe.parsed.isAppLogin)
                  /\ static => ~probe.parsed.isUserLogin /\ ~probe.parsed.isAppLogin
                  /\ (p.clientId # "" /\ p.clientSecret # "") => probe.parsed.isAppLogin

(* C34: the app-credential acquisition makes its two calls in order, the   *)
(* token POST and then the generateToken POST, and resolves only with the   *)
(* token of the second; the second call is not issued when the first fails  *)
(* or yields no token, and it is issued when the first call is answered     *)
(* with the reply of the OAuth token service, {"access_token": P,           *)
(* "expires_in": N}.                                                        *)
C34_AppLoginExchangesPortalToken ==
    \A i \in 1..Len(calls) :
        calls[i].entry = "performAppLogin"
        => /\ calls[i].requests \in {1, 2}
           /\ calls[i].outcome = "resolved" => calls[i].requests = 2
           /\ (calls[i].requests = 1 /\ calls[i].pc = "settled")
                => calls[i].last \in {"networkError", "status500", "errorBody", "noToken"}

(* C35: the user-credential acquisition started by performUserLogin first  *)
(* requests the info page derived from resource.url, then posts the token   *)
(* request to the endpoint it names, and its outcome is the token of that   *)
(* last response: it makes at least the first request, and it resolves      *)
(* only after both.                                                         *)
C35_UserLoginAsksInfoThenToken ==
    \A i \in 1..Len(calls) :
        ( /\ calls[i].entry = "getNewTokenIfCredentialsAreSpecified"
          /\ calls[i].mode = "user" )
        => /\ calls[i].requests >= 1
           /\ calls[i].outcome = "resolved" => calls[i].requests = 2

(* C37: whenever the admission check of a request for a rate-limited       *)
(* Resource runs its SELECT, the validator's referrer key and the          *)
(* Resource's url are the key of a row that start() created and that is in *)
(* the table: the check never finds its row missing.                       *)
C37_AdmissionCheckFindsItsRow ==
    (serverUp /\ headIs("select")) =>
        LET q == req[Head(dbQueue).r]
            key == <<cfg.serverUrls[q.serverURLInfo].url, q.referrer>>
        IN /\ key \in DOMAIN createDatabaseIfNotExists(cfg, now)
           /\ key \in DOMAIN rows

(* C38: every inbound request gets exactly one final response: no request  *)
(* ends with its handler finished and its response never written, and no   *)
(* response is ended twice.                                                *)
C38_ExactlyOneResponsePerRequest ==
    \A r \in Requests :
        /\ req[r].pc # "unanswered"
        /\ Len(req[r].responses) <= 1
        /\ req[r].pc = "done" => Len(req[r].responses) = 1

(* C39: no inbound request takes the server out of the listening state: a  *)
(* failure while a request is handled is answered with an error response   *)
(* and never reaches the uncaughtException handler, which exits.           *)
C39_ServerStaysListening ==
    /\ serverUp
    /\ \A r \in Requests :
          req[r].failure # "none" => req[r].pc \in {"done", "select"}

====
